---- MODULE Spec2Model ----
(***************************************************************************)
(* Model of the signal-to-action pipeline of the Cointracker backend:      *)
(* the Supabase trading bot (services/trading_engine.py), the rule-based   *)
(* scorer and the trailing-stop self-tuning (api/analysis.py) and the      *)
(* enhanced backtest simulator (services/backtester.py).                   *)
(*                                                                         *)
(* Numbers.  The code computes in binary floating point; the model uses    *)
(* exact fixed point and compares percentages by cross-multiplication:     *)
(*   prices                 tenths of a quote unit    (1000 is 100.0)      *)
(*   stop-loss/take-profit  tenths of a percent       (-25 is -2.5 %)      *)
(*   profit, trail width    thousandths of a percent  (800 is 0.8 %)       *)
(*   trail multipliers      hundredths                (130 is 1.30)        *)
(*   trailing stop          millionths of a quote unit                     *)
(*   confidence, ratios     hundredths                (60 is 0.60)         *)
(*   sizing multipliers     thousandths               (1050 is 1.05)       *)
(*   money                  cents                                          *)
(* A Python None is the value NONE; a trailing stop of 0 is "not set"      *)
(* (the code tests it by truthiness).                                      *)
(***************************************************************************)
EXTENDS Integers, Sequences, FiniteSets, TLC

\* Optional[float] = None
NONE == -1

Min(a, b) == IF a <= b THEN a ELSE b
Max(a, b) == IF a >= b THEN a ELSE b

(***************************************************************************)
(* Bounds of the model.                                                    *)
(***************************************************************************)
\* analysis results handed to one process_analysis_results run
MaxResults == 2
\* completed exit analyses inside the learning window offered to one tuning run
MaxExits == 5

\* the symbols the bot trades in the model
Coins == {"BTC", "ETH"}
\* prices the market data source can report (tenths): 100.0 .. 103.0
Prices == {1000, 1010, 1015, 1023, 1030}

(***************************************************************************)
(* BotSettings (defaults of the dataclass).                                *)
(***************************************************************************)
min_signal_score == 65
max_position_size_percent == 20
stop_loss_percent == -25
take_profit_percent == 30
required_confidence == 60
min_volume_24h == 1000000

\* BotSettings.max_positions
max_positions == 15

BotSettings(active) ==
  [ min_signal_score |-> min_signal_score,
    max_position_size_percent |-> max_position_size_percent,
    max_positions |-> max_positions,
    stop_loss_percent |-> stop_loss_percent,
    take_profit_percent |-> take_profit_percent,
    required_confidence |-> required_confidence,
    min_volume_24h |-> min_volume_24h,
    is_active |-> active ]

(***************************************************************************)
(* Percentages of a price against the entry price, compared exactly.       *)
(*   pnl_percent = ((current_price / entry_price) - 1) * 100               *)
(***************************************************************************)
\* pnl_percent <= pct  (pct in tenths of a percent)
PnlLE(current_price, entry_price, pct) ==
  (current_price - entry_price) * 1000 <= pct * entry_price
\* pnl_percent >= pct
PnlGE(current_price, entry_price, pct) ==
  (current_price - entry_price) * 1000 >= pct * entry_price
\* pnl_percent > 0
PnlPositive(current_price, entry_price) == current_price > entry_price
\* ((highest_price / entry_price) - 1) * 100 in thousandths of a percent, rounded
\* down: the tier tests compare it with whole percents by <, which rounding
\* down leaves exact
ProfitFromEntry(highest_price, entry_price) ==
  ((highest_price - entry_price) * 100000) \div entry_price

\* the tiers with their upper ends included (profit <= 3 instead of profit < 3)
BaseTrail_BoundsIncluded(profit_percent, is_bullrun) ==
  IF is_bullrun
    THEN IF profit_percent <= 5000 THEN 10
         ELSE IF profit_percent <= 10000 THEN 18
         ELSE IF profit_percent <= 20000 THEN 25
         ELSE 35
    ELSE IF profit_percent <= 3000 THEN 5
         ELSE IF profit_percent <= 5000 THEN 8
         ELSE IF profit_percent <= 10000 THEN 12
         ELSE 15

(***************************************************************************)
(* calculate_tiered_trailing_stop_percent: the tier of the profit, times   *)
(* the learned multiplier of the position's class, capped to [0.3, 8.0].   *)
(* multipliers is what get_trail_multipliers() returned.                   *)
(***************************************************************************)
BaseTrail(profit_percent, is_bullrun) ==
  IF is_bullrun
    THEN IF profit_percent < 5000 THEN 10
         ELSE IF profit_percent < 10000 THEN 18
         ELSE IF profit_percent < 20000 THEN 25
         ELSE 35
    ELSE IF profit_percent < 3000 THEN 5
         ELSE IF profit_percent < 5000 THEN 8
         ELSE IF profit_percent < 10000 THEN 12
         ELSE 15

\* a variant of line 610 that takes the normal multiplier for every position
calculate_tiered_trailing_stop_percent_OneMultiplier(profit_percent, is_bullrun, multipliers) ==
  Max(300, Min(8000, BaseTrail(profit_percent, is_bullrun) * multipliers.normal))

calculate_tiered_trailing_stop_percent(profit_percent, is_bullrun, multipliers) ==
  LET multiplier == IF is_bullrun THEN multipliers.bullrun ELSE multipliers.normal
      adjusted_trail == BaseTrail(profit_percent, is_bullrun) * multiplier
  IN  Max(300, Min(8000, adjusted_trail))

\* new_trailing_stop = highest_price * (1 - trail_percent / 100), in millionths
NewTrailingStop(highest_price, trail_percent) ==
  highest_price * (100000 - trail_percent)

\* current_price <= trailing_stop
PriceAtOrBelowStop(current_price, trailing_stop) ==
  current_price * 100000 <= trailing_stop

(***************************************************************************)
(* SupabaseTradingBot._should_buy.  s is self.settings, a the arguments.   *)
(* The value is the number of the return statement that rejects, in the    *)
(* order of the code, and 0 when the last statement (return True) is run:  *)
(*   1 bot not active          2 signal not STRONG_BUY/BUY                 *)
(*   3 effective score         4 confidence          5 volume_24h          *)
(*   6 price below EMA200      7 ADX < 20            8 volume_ratio < 0.10 *)
(*   9 4h trend BEARISH and not aligned              10 unfavorable regime *)
(***************************************************************************)
\* the boost without its top tier
score_boost_NoTopTier(bullrun_score) ==
  IF bullrun_score >= 80 THEN 10
  ELSE 5

score_boost(bullrun_score) ==
  IF bullrun_score >= 90 THEN 15
  ELSE IF bullrun_score >= 80 THEN 10
  ELSE 5

effective_score(a) ==
  IF a.is_bullrun THEN Min(a.score + score_boost(a.bullrun_score), 100) ELSE a.score

effective_min_score(s, a) ==
  IF a.is_bullrun THEN Max(s.min_signal_score - 10, 55) ELSE s.min_signal_score

effective_min_confidence(s, a) ==
  IF a.is_bullrun THEN Max(s.required_confidence - 10, 50) ELSE s.required_confidence

\* the chain with the ADX test waived for bullrun coins
_should_buy_return_AdxWaivedInBullrun(s, a) ==
  IF ~s.is_active THEN 1
  ELSE IF a.signal \notin {"STRONG_BUY", "BUY"} THEN 2
  ELSE IF effective_score(a) < effective_min_score(s, a) THEN 3
  ELSE IF a.confidence < effective_min_confidence(s, a) THEN 4
  ELSE IF a.volume_24h < s.min_volume_24h THEN 5
  ELSE IF a.ema_200 # NONE /\ a.price > 0 /\ a.price < a.ema_200 THEN 6
  ELSE IF ~a.is_bullrun /\ a.adx # NONE /\ a.adx < 20 THEN 7
  ELSE IF a.volume_ratio # NONE /\ a.volume_ratio < 10 THEN 8
  ELSE IF ~a.timeframes_aligned /\ a.higher_tf_trend = "BEARISH" THEN 9
  ELSE IF ~a.is_favorable_regime THEN 10
  ELSE 0

\* the chain with the volume-ratio test placed before the ADX test
_should_buy_return_VolumeRatioFirst(s, a) ==
  IF ~s.is_active THEN 1
  ELSE IF a.signal \notin {"STRONG_BUY", "BUY"} THEN 2
  ELSE IF effective_score(a) < effective_min_score(s, a) THEN 3
  ELSE IF a.confidence < effective_min_confidence(s, a) THEN 4
  ELSE IF a.volume_24h < s.min_volume_24h THEN 5
  ELSE IF a.ema_200 # NONE /\ a.price > 0 /\ a.price < a.ema_200 THEN 6
  ELSE IF a.volume_ratio # NONE /\ a.volume_ratio < 10 THEN 8
  ELSE IF a.adx # NONE /\ a.adx < 20 THEN 7
  ELSE IF ~a.timeframes_aligned /\ a.higher_tf_trend = "BEARISH" THEN 9
  ELSE IF ~a.is_favorable_regime THEN 10
  ELSE 0

\* the chain with an ADX test that takes a missing ADX for a weak trend
_should_buy_return_MissingAdxRejects(s, a) ==
  IF ~s.is_active THEN 1
  ELSE IF a.signal \notin {"STRONG_BUY", "BUY"} THEN 2
  ELSE IF effective_score(a) < effective_min_score(s, a) THEN 3
  ELSE IF a.confidence < effective_min_confidence(s, a) THEN 4
  ELSE IF a.volume_24h < s.min_volume_24h THEN 5
  ELSE IF a.ema_200 # NONE /\ a.price > 0 /\ a.price < a.ema_200 THEN 6
  ELSE IF a.adx = NONE \/ a.adx < 20 THEN 7
  ELSE IF a.volume_ratio # NONE /\ a.volume_ratio < 10 THEN 8
  ELSE IF ~a.timeframes_aligned /\ a.higher_tf_trend = "BEARISH" THEN 9
  ELSE IF ~a.is_favorable_regime THEN 10
  ELSE 0

_should_buy_return(s, a) ==
  IF ~s.is_active THEN 1
  ELSE IF a.signal \notin {"STRONG_BUY", "BUY"} THEN 2
  ELSE IF effective_score(a) < effective_min_score(s, a) THEN 3
  ELSE IF a.confidence < effective_min_confidence(s, a) THEN 4
  ELSE IF a.volume_24h < s.min_volume_24h THEN 5
  ELSE IF a.ema_200 # NONE /\ a.price > 0 /\ a.price < a.ema_200 THEN 6
  ELSE IF a.adx # NONE /\ a.adx < 20 THEN 7
  ELSE IF a.volume_ratio # NONE /\ a.volume_ratio < 10 THEN 8
  ELSE IF ~a.timeframes_aligned /\ a.higher_tf_trend = "BEARISH" THEN 9
  ELSE IF ~a.is_favorable_regime THEN 10
  ELSE 0

_should_buy(s, a) == _should_buy_return(s, a) = 0

(***************************************************************************)
(* SupabaseTradingBot._should_sell: the reason, "" for (False, "").        *)
(***************************************************************************)
_should_sell(s, position, current_price, signal, score) ==
  IF PnlLE(current_price, position.entry_price, s.stop_loss_percent)
    THEN "STOP_LOSS"
  ELSE IF PnlGE(current_price, position.entry_price, s.take_profit_percent)
    THEN "TAKE_PROFIT"
  ELSE IF signal \in {"STRONG_SELL", "SELL"} /\ score <= 100 - s.min_signal_score
    THEN "SIGNAL_REVERSAL"
  ELSE ""

(***************************************************************************)
(* SupabaseTradingBot._calculate_position_size.  The value is the position *)
(* value in cents, which the function divides by the price and rounds      *)
(* (position_quantity); 0 stands for the quantity 0.                       *)
(* Products of multipliers are rounded down to thousandths.                *)
(***************************************************************************)
conf_multiplier(confidence) ==
  IF confidence >= 80 THEN 1000 + (confidence - 80) * 15
  ELSE IF confidence >= 50 THEN 1000
  ELSE 700 + confidence * 6

adx_multiplier(adx) ==
  IF adx = NONE \/ adx = 0 THEN 1000
  ELSE IF adx >= 50 THEN 1150
  ELSE IF adx >= 35 THEN 1100
  ELSE IF adx >= 25 THEN 1050
  ELSE 1000

volume_multiplier(volume_spike) == IF volume_spike THEN 1100 ELSE 1000

regime_multiplier(regime_confidence) == 900 + regime_confidence * 2

bullrun_multiplier(bullrun_score, is_bullrun) ==
  IF ~is_bullrun THEN 1000
  ELSE IF bullrun_score >= 90 THEN 1300
  ELSE IF bullrun_score >= 80 THEN 1200
  ELSE 1100

MulK(x, y) == (x * y) \div 1000

\* a variant of lines 952-956 without the cap of max_multiplier
total_multiplier_Uncapped(a) ==
  MulK(MulK(MulK(MulK(conf_multiplier(a.confidence), adx_multiplier(a.adx)),
                 volume_multiplier(a.volume_spike)),
            regime_multiplier(a.regime_confidence)),
       bullrun_multiplier(a.bullrun_score, a.is_bullrun))

total_multiplier(a) ==
  Min( MulK(MulK(MulK(MulK(conf_multiplier(a.confidence), adx_multiplier(a.adx)),
                      volume_multiplier(a.volume_spike)),
                 regime_multiplier(a.regime_confidence)),
            bullrun_multiplier(a.bullrun_score, a.is_bullrun)),
       1500 )

_calculate_position_size(s, balance_usdt, a) ==
  IF balance_usdt = NONE THEN 0
  ELSE LET base_value == (balance_usdt * s.max_position_size_percent) \div 100
           position_value == Min(MulK(base_value, total_multiplier(a)),
                                 (balance_usdt * 95) \div 100)
       IN  IF position_value < 1000 THEN 0 ELSE position_value

(***************************************************************************)
(* State.                                                                  *)
(***************************************************************************)
VARIABLES
  \* the persistent store (Supabase)
  db_is_active,                 \* bot_settings.is_active
  db_positions,                 \* bot_positions: coin -> row
  db_tuning,                    \* the bot_tuning row
  \* autonomous_bot, the shared SupabaseTradingBot instance
  settings,                     \* self.settings
  balance,                      \* self.balance.balance_usdt, NONE before a load
  positions,                    \* self.positions: coin -> BotPosition
  \* module globals of trading_engine.py
  trail_multiplier_cache,       \* _trail_multiplier_cache
  trail_multiplier_cache_time,  \* _trail_multiplier_cache_time is set
  \* a check_stop_losses call in progress
  csl_pc, csl_symbols,
  \* a process_analysis_results call in progress
  pa_pc, pa_n, pa_sell,
  \* what the step just taken did: the trade it handed to execute_trade, the
  \* exit evaluation it made, the bot_exit_analysis row it handed to the store,
  \* what send_notification returned to it
  last_trade, last_eval, last_exit, last_notify,
  \* per coin: how far the updates of its position have followed ScenarioPath
  path,
  \* auto_tune_trailing_stops: the clock of the store, the response of the call
  \* just made
  tune_now, tune_result,
  \* calculate_tech_signal: the indicators of the coin, the value of the newest
  \* call and of the call before it
  tech_in, tech_out, tech_prev,
  \* _should_buy: the arguments of the call, the return statement it left by
  buy_in, buy_out,
  \* one snapshot run through the live pipeline and through the backtester
  par_in, par_live, par_back,
  \* trading_engine, the TradingEngine instance: config.enabled and
  \* config.testnet_only, self.positions, self.orders in insertion order,
  \* self.daily_pnl, self.last_loss_time is set, the process_signal call just
  \* made
  eng_config, eng_positions, eng_orders, eng_daily_pnl, eng_last_loss, eng_call,
  \* update_bot_settings: the bot_settings row, the configuration of
  \* exchange_service, the response of the call just made
  set_row, set_exchange, set_response,
  \* analyze_single_coin: the market data and the scorer of the call, its result
  ana_in, ana_out,
  \* _calculate_position_size: the arguments of the call, what it returned
  size_in, size_out,
  \* a backtest: the simulator that runs, the candles after the warm-up and how
  \* many of them the loop has taken, the locals position, peak_price, capital,
  \* trades and equity_curve of the simulator, the entry_time of every position
  \* it opened, what the newest pass of the loop did, the BacktestResult
  bt_sim, bt_n, bt_i, bt_position, bt_peak_price, bt_capital, bt_trades,
  bt_entries, bt_equity_curve, bt_step, bt_result,
  \* the config the simulator runs with, and the closes of the data it was
  \* given: of the first candle, of the first candle after the warm-up, of the
  \* last candle
  bt_cfg, bt_ohlcv,
  \* a call of a function of the bot on its own: the arguments, what it returned
  fn_in, fn_out,
  \* calls of get_trail_multipliers over time: datetime.utcnow() in half hours,
  \* the value of _trail_multiplier_cache_time when it is set, the multipliers
  \* the bot_tuning row held and since when
  clock_now, cache_loaded_at, store_log,
  \* quantity * price of each BUY the newest process_analysis_results call has
  \* handed to execute_trade
  pa_buys

bot_vars == << db_is_active, db_positions, db_tuning, settings, balance,
               positions, trail_multiplier_cache, trail_multiplier_cache_time,
               csl_pc, csl_symbols, pa_pc, pa_n, pa_sell, last_trade, last_eval,
               last_exit, last_notify, path >>
tune_vars == << tune_now, tune_result >>
tech_vars == << tech_in, tech_out, tech_prev >>
buy_vars == << buy_in, buy_out >>
par_vars == << par_in, par_live, par_back >>
eng_vars == << eng_config, eng_positions, eng_orders, eng_daily_pnl,
               eng_last_loss, eng_call >>
set_vars == << set_row, set_exchange, set_response >>
ana_vars == << ana_in, ana_out >>
size_vars == << size_in, size_out >>
bt_vars == << bt_sim, bt_n, bt_i, bt_position, bt_peak_price, bt_capital,
              bt_trades, bt_entries, bt_equity_curve, bt_step, bt_result,
              bt_cfg, bt_ohlcv >>
fn_vars == << fn_in, fn_out, clock_now, cache_loaded_at, store_log >>
run_vars == << pa_buys >>
rest_vars == << eng_vars, set_vars, ana_vars, size_vars, bt_vars, fn_vars,
               run_vars >>
vars == << bot_vars, tune_vars, tech_vars, buy_vars, par_vars, rest_vars >>

\* self.settings = None
NoSettings == [BotSettings(FALSE) EXCEPT !.max_positions = 0]

\* the balances the bot_balance row can hold when it is read (cents)
BalanceValues == {1000000}

\* the multipliers the bot_tuning row can hold
\* a row of bot_tuning
Tuning(trail_multiplier, bullrun_trail_multiplier) ==
  [ trail_multiplier |-> trail_multiplier,
    bullrun_trail_multiplier |-> bullrun_trail_multiplier,
    previous_trail_multiplier |-> NONE, last_adjusted_at |-> NONE,
    adjustment_reason |-> "" ]

TuningRows == { Tuning(100, 100), Tuning(130, 130) }

\* a row of bot_positions / a BotPosition
Position(entry_price, highest_price, trailing_stop, is_bullrun) ==
  [ entry_price |-> entry_price, highest_price |-> highest_price,
    trailing_stop |-> trailing_stop, is_bullrun |-> is_bullrun ]

Remove(f, c) == [x \in DOMAIN f \ {c} |-> f[x]]
Put(f, c, v) == [x \in DOMAIN f \cup {c} |-> IF x = c THEN v ELSE f[x]]

NoTrade == [coin |-> "", side |-> "", success |-> FALSE, store_open |-> FALSE,
            held |-> FALSE]
NoExit == [coin |-> "", exit_price |-> 0, exit_reason |-> "", stored |-> FALSE]
NoEval == [by |-> "", coin |-> "", price |-> 0, entry_price |-> 0,
           highest_price |-> 0, trailing_stop |-> 0, trail_percent |-> 0,
           multiplier |-> 0, is_bullrun |-> FALSE, signal |-> "", score |-> 0,
           fired |-> "", not_evaluated |-> {}]

\* the values the variables of the other operations have before a call
NoResponse == [kind |-> "", trades_analyzed |-> 0, premature_exits |-> 0,
               adjustment_made |-> FALSE]
NoIndicators == [given |-> FALSE]
NoSignal == [signal |-> "", score |-> NONE, reasons |-> << >>]
NoCall == [given |-> FALSE]
NoDecision == [given |-> FALSE]
NoEngCall == [symbol |-> "", returned |-> "", placed |-> 0, status |-> "",
              exchange |-> ""]
NoReply == [status_code |-> 0, trading_type |-> "", leverage |-> NONE]
NoResult == [given |-> FALSE]
NoBtPosition == [side |-> "", entry_price |-> 0, entry_time |-> 0,
                 position_value |-> 0, signal_score |-> 0]
NoBtStep == [price |-> 0, open_at_start |-> FALSE, exit |-> "", entered |-> FALSE]

\* the notification sink as a call finds it: FCM_SERVER_KEY is set, the tokens
\* get_active_tokens returns (none when there are none or when its read fails,
\* lines 25-37), what the request to FCM does
Sinks ==
  [ fcm_key : BOOLEAN, tokens : {"none", "one"},
    post : {"delivered", "refused", "raises"} ]

NoSink == [fcm_key |-> FALSE, tokens |-> "none", post |-> "refused"]

\* a variant of send_notification without the handler of line 97 around the
\* request
send_notification_PostUnguarded(sink) ==
  IF ~sink.fcm_key THEN "false"
  ELSE IF sink.tokens = "none" THEN "false"
  ELSE IF sink.post = "raises" THEN "raises"
  ELSE IF sink.post = "delivered" THEN "true"
  ELSE "false"

\* NotificationService.send_notification (notification_service.py 41-114),
\* through notify_trade_executed, notify_profit_loss or notify_strong_signal:
\* what it returns ("true", "false"), or "raises"
send_notification(sink) ==
  IF ~sink.fcm_key THEN "false"
  ELSE IF sink.tokens = "none" THEN "false"
  ELSE IF sink.post = "delivered" THEN "true"
  ELSE "false"

\* the step hands no trade over, evaluates no exit, inserts no row and sends
\* no notification
NoEvent ==
  /\ last_trade' = NoTrade
  /\ last_eval' = NoEval
  /\ last_exit' = NoExit
  /\ last_notify' = ""

(***************************************************************************)
(* The analysis results a run can be given: one of a few indicator         *)
(* profiles, for any coin at any price.                                    *)
(***************************************************************************)
Profile(signal, score, confidence, adx, bullrun_score, is_bullrun) ==
  [ ml_signal |-> signal, ml_score |-> score, ml_confidence |-> confidence,
    volume_24h |-> 2000000, ema_200 |-> NONE, adx |-> adx, volume_ratio |-> 120,
    timeframes_aligned |-> TRUE, higher_tf_trend |-> "NEUTRAL",
    is_favorable_regime |-> TRUE, volume_spike |-> FALSE,
    regime_confidence |-> 50, bullrun_score |-> bullrun_score,
    is_bullrun |-> is_bullrun ]

Profiles ==
  { Profile("STRONG_BUY", 80, 80, 30, 0, FALSE),
    Profile("BUY", 60, 60, 30, 92, TRUE),
    Profile("SELL", 30, 80, 30, 0, FALSE) }

\* the arguments process_analysis_results passes to _should_buy and
\* _calculate_position_size for the result r
BuyArgs(r) ==
  [ signal |-> r.ml_signal, score |-> r.ml_score, confidence |-> r.ml_confidence,
    volume_24h |-> r.volume_24h, price |-> r.price, ema_200 |-> r.ema_200,
    adx |-> r.adx, volume_ratio |-> r.volume_ratio,
    timeframes_aligned |-> r.timeframes_aligned,
    higher_tf_trend |-> r.higher_tf_trend,
    is_favorable_regime |-> r.is_favorable_regime,
    volume_spike |-> r.volume_spike, regime_confidence |-> r.regime_confidence,
    bullrun_score |-> r.bullrun_score, is_bullrun |-> r.is_bullrun ]

\* the price path of the worked example of the design, and the entry it starts at
ScenarioPath == << 1000, 1010, 1030, 1023, 1015 >>
ScenarioEntry == ScenarioPath[1]

\* the prices and the coins an analysis result can carry
ResultPrices == {1000, 1015, 1030}
ResultCoins == {"BTC"}

BotResults ==
  { [coin |-> c, price |-> p] @@ f :
      c \in ResultCoins, p \in ResultPrices, f \in Profiles }

(***************************************************************************)
(* SupabaseTradingBot.initialize.  The three loads run in order inside one *)
(* try; fail_at names the load whose store call raises ("none": no call    *)
(* raises, the method returns True).  b is the bot_balance row read.       *)
(***************************************************************************)
FailPoints == {"none", "settings", "balance", "positions"}

InitializedSettings(fail_at) ==
  IF fail_at = "settings" THEN settings ELSE BotSettings(db_is_active)
InitializedBalance(fail_at, b) ==
  IF fail_at \in {"settings", "balance"} THEN balance ELSE b
InitializedPositions(fail_at) ==
  IF fail_at = "none" THEN db_positions ELSE positions

initialize(fail_at, b) ==
  /\ settings' = InitializedSettings(fail_at)
  /\ balance' = InitializedBalance(fail_at, b)
  /\ positions' = InitializedPositions(fail_at)

(***************************************************************************)
(* get_trail_multipliers: the cache while it is younger than an hour       *)
(* (expired = FALSE), else the bot_tuning row when the read succeeds, else *)
(* the cache as it was.  The value is the triple (cache, cache time is      *)
(* set, the store was queried).                                            *)
(***************************************************************************)
\* a variant of lines 480-483 that serves the cache whatever its age
get_trail_multipliers_NoExpiry(expired, read_ok) ==
  IF trail_multiplier_cache_time
    THEN << trail_multiplier_cache, trail_multiplier_cache_time, FALSE >>
  ELSE IF read_ok
    THEN << [normal |-> db_tuning.trail_multiplier,
             bullrun |-> db_tuning.bullrun_trail_multiplier], TRUE, TRUE >>
  ELSE << trail_multiplier_cache, trail_multiplier_cache_time, TRUE >>

get_trail_multipliers(expired, read_ok) ==
  IF trail_multiplier_cache_time /\ ~expired
    THEN << trail_multiplier_cache, trail_multiplier_cache_time, FALSE >>
  ELSE IF read_ok
    THEN << [normal |-> db_tuning.trail_multiplier,
             bullrun |-> db_tuning.bullrun_trail_multiplier], TRUE, TRUE >>
  ELSE << trail_multiplier_cache, trail_multiplier_cache_time, TRUE >>

(***************************************************************************)
(* check_stop_losses, the body of the loop for one position (lines         *)
(* 1391-1550).                                                             *)
(***************************************************************************)
\* lines 1398-1416: the position after the highest price and the trailing stop
\* are updated in memory
TrailRaised(position, current_price) == current_price > position.highest_price

TrailPercent(position, current_price, multipliers) ==
  calculate_tiered_trailing_stop_percent(
    ProfitFromEntry(current_price, position.entry_price), position.is_bullrun,
    multipliers)

TrailAdopted(position, current_price, multipliers) ==
  /\ TrailRaised(position, current_price)
  /\ \/ position.trailing_stop = 0
     \/ NewTrailingStop(current_price, TrailPercent(position, current_price, multipliers))
          > position.trailing_stop

UpdatedPosition(position, current_price, multipliers) ==
  Position(position.entry_price,
           IF TrailRaised(position, current_price)
             THEN current_price ELSE position.highest_price,
           IF TrailAdopted(position, current_price, multipliers)
             THEN NewTrailingStop(current_price,
                                  TrailPercent(position, current_price, multipliers))
             ELSE position.trailing_stop,
           position.is_bullrun)

\* lines 1429 and 1431: both log calls build their message with an f-string
\* whose format specification is the text ".2f if old_trailing else 0:.2f" or
\* ".4f if position.trailing_stop else 0"; float.__format__ and
\* NoneType.__format__ reject it (ValueError, TypeError), so the statement
\* raises for every position that has a price
LogLineRaises == TRUE

\* lines 1433-1514: the exit branch taken, "" for none
CslExitReason(s, position, current_price) ==
  IF /\ position.trailing_stop # 0
     /\ PriceAtOrBelowStop(current_price, position.trailing_stop)
     /\ PnlPositive(current_price, position.entry_price)
    THEN "TRAILING_STOP"
  ELSE IF PnlLE(current_price, position.entry_price, s.stop_loss_percent)
    THEN "STOP_LOSS"
  ELSE IF PnlGE(current_price, position.entry_price, s.take_profit_percent)
    THEN "TAKE_PROFIT"
  ELSE ""

\* how far the updates of a position have followed ScenarioPath
PathAfter(n, current_price) ==
  IF n # NONE /\ n < Len(ScenarioPath) /\ current_price = ScenarioPath[n + 1]
    THEN n + 1
    ELSE NONE

(***************************************************************************)
(* The store function execute_bot_trade behind execute_trade: a successful *)
(* BUY opens the coin's row (entry = highest = price, no trailing stop, not *)
(* a bullrun position; a row that is already there stays as it is), a      *)
(* successful SELL deletes it.  ok is the "success" of the result, FALSE    *)
(* also when the call raises.                                              *)
(***************************************************************************)
execute_bot_trade(coin, side, price, ok) ==
  IF ~ok THEN db_positions
  ELSE IF side = "SELL" THEN Remove(db_positions, coin)
  ELSE IF coin \in DOMAIN db_positions THEN db_positions
  ELSE Put(db_positions, coin, Position(price, price, 0, FALSE))

\* lines 1184-1191: the update that sets is_bullrun on the coin's row
MarkBullrun(rows, coin, marked) ==
  IF marked /\ coin \in DOMAIN rows
    THEN [rows EXCEPT ![coin].is_bullrun = TRUE]
    ELSE rows

PathAfterTrade(coin, side, price, ok) ==
  IF ~ok THEN path
  ELSE IF side = "SELL" THEN [path EXCEPT ![coin] = NONE]
  ELSE IF coin \in DOMAIN db_positions THEN path
  ELSE [path EXCEPT ![coin] = IF price = ScenarioEntry THEN 0 ELSE NONE]

Trade(coin, side, ok) ==
  [ coin |-> coin, side |-> side, success |-> ok,
    store_open |-> coin \in DOMAIN db_positions,
    held |-> coin \in DOMAIN positions ]

(***************************************************************************)
(* check_stop_losses.  A call runs to its first await that suspends (the   *)
(* price requests), and from there to its end.                             *)
(***************************************************************************)
\* lines 1351-1367: initialize(), whose result is ignored, and the early return
CslStart(fail_at, b) ==
  /\ csl_pc = "idle"
  /\ pa_pc # "loop"
  /\ initialize(fail_at, b)
  /\ IF DOMAIN positions' = {}
       THEN csl_pc' = "idle" /\ csl_symbols' = {}
       ELSE csl_pc' = "fetch" /\ csl_symbols' = DOMAIN positions'
  /\ NoEvent
  /\ UNCHANGED << db_is_active, db_positions, db_tuning,
                  trail_multiplier_cache, trail_multiplier_cache_time,
                  pa_pc, pa_n, pa_sell, path >>
  /\ UNCHANGED << tune_vars, tech_vars, buy_vars, par_vars, rest_vars >>

\* lines 1369-1389 and 1561: no position of self.positions got a price
CslNoPrice ==
  /\ csl_pc = "fetch"
  /\ pa_pc # "loop"
  /\ csl_pc' = "idle"
  /\ csl_symbols' = {}
  /\ NoEvent
  /\ UNCHANGED << db_is_active, db_positions, db_tuning, settings,
                  balance, positions, trail_multiplier_cache,
                  trail_multiplier_cache_time, pa_pc, pa_n, pa_sell, path >>
  /\ UNCHANGED << tune_vars, tech_vars, buy_vars, par_vars, rest_vars >>

\* lines 1384-1559 for coin, the first position in the order of the dict that has
\* a price (the order is that of the rows the store returned)
\* sell_ok, record_ok: the outcomes of execute_trade and of
\* record_exit_for_learning, drawn where the exit branches are reached
\* others: the positions after coin that have a price as well; the exception of
\* a log statement leaves the loop by the handler of line 1552, so that the call
\* ends without evaluating them
CslCheck(coin, current_price, others, expired, read_ok, write_ok) ==
  /\ csl_pc = "fetch"
  /\ pa_pc # "loop"
  /\ coin \in DOMAIN positions \cap csl_symbols
  /\ others \subseteq (DOMAIN positions \cap csl_symbols) \ {coin}
  /\ \E sell_ok, record_ok \in (IF LogLineRaises THEN {FALSE} ELSE BOOLEAN),
        sink \in (IF LogLineRaises THEN {NoSink} ELSE Sinks) :
     LET position == positions[coin]
         raised == TrailRaised(position, current_price)
         got == IF raised THEN get_trail_multipliers(expired, read_ok)
                ELSE << trail_multiplier_cache, trail_multiplier_cache_time >>
         multipliers == got[1]
         adopted == TrailAdopted(position, current_price, multipliers)
         updated == UpdatedPosition(position, current_price, multipliers)
         reason == IF LogLineRaises THEN ""
                   ELSE CslExitReason(settings, updated, current_price)
         sold == reason # "" /\ sell_ok
     IN  /\ trail_multiplier_cache' = multipliers
         /\ trail_multiplier_cache_time' = got[2]
         /\ positions' = IF sold THEN Remove(positions, coin)
                         ELSE Put(positions, coin, updated)
         /\ db_positions' =
              LET written == IF adopted /\ write_ok /\ coin \in DOMAIN db_positions
                               THEN [db_positions EXCEPT
                                       ![coin].highest_price = current_price,
                                       ![coin].trailing_stop = updated.trailing_stop]
                               ELSE db_positions
              IN  IF sold THEN Remove(written, coin) ELSE written
         /\ last_eval' =
              [ by |-> "csl", coin |-> coin, price |-> current_price,
                entry_price |-> updated.entry_price,
                highest_price |-> updated.highest_price,
                trailing_stop |-> updated.trailing_stop,
                trail_percent |-> IF raised
                                    THEN TrailPercent(position, current_price, multipliers)
                                    ELSE 0,
                multiplier |-> IF ~raised THEN 0
                               ELSE IF position.is_bullrun THEN multipliers.bullrun
                               ELSE multipliers.normal,
                is_bullrun |-> position.is_bullrun, signal |-> "", score |-> 0,
                fired |-> reason,
                not_evaluated |-> IF LogLineRaises THEN others ELSE {} ]
         /\ last_trade' = IF reason # "" THEN Trade(coin, "SELL", sell_ok)
                          ELSE NoTrade
         /\ last_notify' = IF sold THEN send_notification(sink) ELSE ""
         /\ last_exit' = IF sold /\ send_notification(sink) # "raises"
                           THEN [coin |-> coin, exit_price |-> current_price,
                                 exit_reason |-> reason, stored |-> record_ok]
                           ELSE NoExit
         /\ path' = IF sold THEN [path EXCEPT ![coin] = NONE]
                    ELSE [path EXCEPT ![coin] = PathAfter(path[coin], current_price)]
         /\ IF LogLineRaises
              THEN csl_pc' = "idle" /\ csl_symbols' = {}
              ELSE csl_pc' = "fetch" /\ csl_symbols' = csl_symbols \ {coin}
  /\ UNCHANGED << db_is_active, db_tuning, settings, balance, pa_pc, pa_n, pa_sell >>
  /\ UNCHANGED << tune_vars, tech_vars, buy_vars, par_vars, rest_vars >>

(***************************************************************************)
(* process_analysis_results.  A call runs without suspending from its      *)
(* start to the notification that follows a successful trade, and from     *)
(* there to the next one or to its end; while pa_pc = "loop" the call is   *)
(* running and no other coroutine of the event loop takes a step.          *)
(***************************************************************************)
\* lines 1036-1050
PaStart(fail_at, b) ==
  /\ pa_pc = "idle"
  /\ initialize(fail_at, b)
  /\ pa_pc' = IF fail_at = "none" /\ settings'.is_active THEN "loop" ELSE "idle"
  /\ pa_n' = 0
  /\ NoEvent
  /\ UNCHANGED << db_is_active, db_positions, db_tuning,
                  trail_multiplier_cache, trail_multiplier_cache_time,
                  csl_pc, csl_symbols, pa_sell, path >>
  /\ UNCHANGED << tune_vars, tech_vars, buy_vars, par_vars, rest_vars >>

\* lines 1088-1136: the coin of the result has a position in self.positions
PaHeld(r, ok) ==
  LET position == positions[r.coin]
      sell_reason == _should_sell(settings, position, r.price, r.ml_signal, r.ml_score)
      sold == sell_reason # "" /\ ok
  IN  /\ last_eval' =
           [ by |-> "pa", coin |-> r.coin, price |-> r.price,
             entry_price |-> position.entry_price,
             highest_price |-> position.highest_price,
             trailing_stop |-> position.trailing_stop,
             trail_percent |-> 0, multiplier |-> 0,
             is_bullrun |-> position.is_bullrun,
             signal |-> r.ml_signal, score |-> r.ml_score, fired |-> sell_reason,
             not_evaluated |-> {} ]
      /\ last_trade' = IF sell_reason # "" THEN Trade(r.coin, "SELL", ok) ELSE NoTrade
      /\ db_positions' = IF sell_reason # ""
                           THEN execute_bot_trade(r.coin, "SELL", r.price, ok)
                           ELSE db_positions
      /\ path' = IF sell_reason # ""
                   THEN PathAfterTrade(r.coin, "SELL", r.price, ok)
                   ELSE path
      /\ positions' = IF sold THEN Remove(positions, r.coin) ELSE positions
      /\ pa_pc' = IF sold THEN "notify_sell" ELSE "loop"
      /\ pa_sell' = IF sold
                      THEN [coin |-> r.coin, exit_price |-> r.price,
                            sell_reason |-> sell_reason]
                      ELSE pa_sell

\* lines 1138-1207: no position for the coin in self.positions
\* mark_ok: the outcome of the update of lines 1184-1191, drawn where it is made
PaFree(r, ok) ==
 \E mark_ok \in (IF ok /\ r.is_bullrun THEN BOOLEAN ELSE {FALSE}) :
  LET a == BuyArgs(r)
      quantity == _calculate_position_size(settings, balance, a)
      buy == /\ Cardinality(DOMAIN positions) < settings.max_positions
             /\ _should_buy(settings, a)
             /\ quantity > 0
  IN  /\ last_trade' = IF buy THEN Trade(r.coin, "BUY", ok) ELSE NoTrade
      /\ db_positions' = IF buy
                           THEN MarkBullrun(execute_bot_trade(r.coin, "BUY", r.price, ok),
                                            r.coin, mark_ok)
                           ELSE db_positions
      /\ path' = IF buy THEN PathAfterTrade(r.coin, "BUY", r.price, ok) ELSE path
      /\ pa_pc' = IF buy /\ ok THEN "notify_buy" ELSE "loop"
      /\ last_eval' = NoEval
      /\ UNCHANGED << positions, pa_sell >>

\* lines 1052-1207: one iteration of the loop over analysis_results
PaStep(r, ok) ==
  /\ pa_pc = "loop"
  /\ pa_n' = pa_n + 1
  /\ IF r.coin \in DOMAIN positions THEN PaHeld(r, ok) ELSE PaFree(r, ok)
  /\ last_exit' = NoExit
  /\ last_notify' = ""
  /\ UNCHANGED << db_is_active, db_tuning, settings, balance,
                  trail_multiplier_cache, trail_multiplier_cache_time,
                  csl_pc, csl_symbols >>
  /\ UNCHANGED << tune_vars, tech_vars, buy_vars, par_vars, eng_vars, set_vars,
                  ana_vars, size_vars, bt_vars, fn_vars >>

\* the iteration for one of at most MaxResults results of the list
PaResult(r, ok) ==
  /\ pa_n < MaxResults
  /\ PaStep(r, ok)
  /\ UNCHANGED run_vars

\* lines 1123-1136: notify_profit_loss, then record_exit_for_learning (lines
\* 503-535), whose insert into bot_exit_analysis is stored or is lost with a
\* warning.  Nothing in process_analysis_results handles an exception of the
\* notification: it would end the call.
PaSellNotified(record_ok, sink) ==
  /\ pa_pc = "notify_sell"
  /\ last_notify' = send_notification(sink)
  /\ IF send_notification(sink) = "raises"
       THEN /\ last_exit' = NoExit
            /\ pa_pc' = "idle"
            /\ pa_n' = 0
       ELSE /\ last_exit' = [coin |-> pa_sell.coin,
                             exit_price |-> pa_sell.exit_price,
                             exit_reason |-> "SIGNAL_REVERSAL",
                             stored |-> record_ok]
            /\ pa_pc' = "loop"
            /\ pa_n' = pa_n
  /\ last_trade' = NoTrade
  /\ last_eval' = NoEval
  /\ UNCHANGED << db_is_active, db_positions, db_tuning, settings, balance,
                  positions, trail_multiplier_cache, trail_multiplier_cache_time,
                  csl_pc, csl_symbols, pa_sell, path >>
  /\ UNCHANGED << tune_vars, tech_vars, buy_vars, par_vars, rest_vars >>

\* lines 1194-1207: notify_trade_executed, and notify_strong_signal for a
\* strong signal, of a BUY
PaBuyNotified(sink) ==
  /\ pa_pc = "notify_buy"
  /\ last_notify' = send_notification(sink)
  /\ IF send_notification(sink) = "raises"
       THEN pa_pc' = "idle" /\ pa_n' = 0
       ELSE pa_pc' = "loop" /\ pa_n' = pa_n
  /\ last_trade' = NoTrade
  /\ last_eval' = NoEval
  /\ last_exit' = NoExit
  /\ UNCHANGED << db_is_active, db_positions, db_tuning, settings,
                  balance, positions, trail_multiplier_cache,
                  trail_multiplier_cache_time, csl_pc, csl_symbols, pa_sell,
                  path >>
  /\ UNCHANGED << tune_vars, tech_vars, buy_vars, par_vars, rest_vars >>

\* lines 1209-1233: the list is exhausted; initialize() again, result ignored
PaFinish(fail_at, b) ==
  /\ pa_pc = "loop"
  /\ initialize(fail_at, b)
  /\ pa_pc' = "idle"
  /\ pa_n' = 0
  /\ NoEvent
  /\ UNCHANGED << db_is_active, db_positions, db_tuning,
                  trail_multiplier_cache, trail_multiplier_cache_time,
                  csl_pc, csl_symbols, pa_sell, path >>
  /\ UNCHANGED << tune_vars, tech_vars, buy_vars, par_vars, rest_vars >>

(***************************************************************************)
(* The bot: the module is imported (autonomous_bot = SupabaseTradingBot(), *)
(* the multiplier cache at its defaults), the store holds no position.     *)
(***************************************************************************)
BotLoaded ==
  /\ last_exit = NoExit
  /\ last_notify = ""
  /\ settings = NoSettings
  /\ balance = NONE
  /\ positions = << >>
  /\ trail_multiplier_cache = [normal |-> 100, bullrun |-> 100]
  /\ trail_multiplier_cache_time = FALSE
  /\ csl_pc = "idle"
  /\ csl_symbols = {}
  /\ pa_pc = "idle"
  /\ pa_n = 0
  /\ pa_sell = [coin |-> "", exit_price |-> 0, sell_reason |-> ""]
  /\ last_trade = NoTrade
  /\ last_eval = NoEval
  /\ path = [c \in Coins |-> NONE]

BotAtStart == BotLoaded /\ db_positions = << >>

\* no call of the other operations has been made
TuneAtStart == tune_now = 0 /\ tune_result = NoResponse
TechAtStart == tech_in = NoIndicators /\ tech_out = NoSignal /\ tech_prev = NoSignal
BuyAtStart == buy_in = NoCall /\ buy_out = NONE
ParAtStart == par_in = NoCall /\ par_live = NoDecision /\ par_back = NoDecision
\* TradingEngine.__init__ with the default TradingConfig
EngAtStart ==
  /\ eng_config = [enabled |-> FALSE, testnet_only |-> TRUE]
  /\ eng_positions = << >>
  /\ eng_orders = << >>
  /\ eng_daily_pnl = 0
  /\ eng_last_loss = FALSE
  /\ eng_call = NoEngCall
\* ExchangeService.__init__, a bot_settings row that agrees with it
SetAtStart ==
  /\ set_row = [trading_type |-> "spot", leverage |-> 1]
  /\ set_exchange = [trading_type |-> "spot", leverage |-> 1,
                     initialized |-> FALSE]
  /\ set_response = NoReply
AnaAtStart == ana_in = NoCall /\ ana_out = NoResult
SizeAtStart == size_in = NoCall /\ size_out = NoResult
NoBtConfig == [initial_capital |-> 0]
NoOhlcv == [first_close |-> 0, start_close |-> 0, last_close |-> 0]
BtAtStart ==
  /\ bt_sim = "" /\ bt_n = 0 /\ bt_i = 0 /\ bt_position = NoBtPosition
  /\ bt_peak_price = 0 /\ bt_capital = 0 /\ bt_trades = << >>
  /\ bt_entries = << >> /\ bt_equity_curve = << >> /\ bt_step = NoBtStep
  /\ bt_result = NoResult
  /\ bt_cfg = NoBtConfig /\ bt_ohlcv = NoOhlcv
FnAtStart ==
  /\ fn_in = NoCall /\ fn_out = NoResult
  /\ clock_now = 0 /\ cache_loaded_at = 0 /\ store_log = << >>
RunAtStart == pa_buys = << >>
RestAtStart ==
  /\ EngAtStart /\ SetAtStart /\ AnaAtStart /\ SizeAtStart /\ BtAtStart
  /\ FnAtStart /\ RunAtStart

InitBot ==
  /\ BotAtStart
  /\ db_is_active \in BOOLEAN
  /\ db_tuning \in TuningRows
  /\ TuneAtStart /\ TechAtStart /\ BuyAtStart /\ ParAtStart /\ RestAtStart

NextBot ==
  \/ \E fail_at \in FailPoints, b \in BalanceValues : CslStart(fail_at, b)
  \/ CslNoPrice
  \/ \E coin \in Coins, current_price \in Prices, others \in SUBSET Coins,
        expired, read_ok, write_ok \in BOOLEAN :
       CslCheck(coin, current_price, others, expired, read_ok, write_ok)
  \/ \E fail_at \in FailPoints, b \in BalanceValues : PaStart(fail_at, b)
  \/ \E r \in BotResults, ok \in BOOLEAN : PaResult(r, ok)
  \/ \E record_ok \in BOOLEAN, sink \in Sinks : PaSellNotified(record_ok, sink)
  \/ \E sink \in Sinks : PaBuyNotified(sink)
  \/ \E fail_at \in FailPoints, b \in BalanceValues : PaFinish(fail_at, b)

SpecBot == InitBot /\ [][NextBot]_vars

(***************************************************************************)
(* check_stop_losses cycles over a store that holds an open position for   *)
(* every coin, each entered at 100.                                        *)
(***************************************************************************)
InitCycle ==
  /\ BotLoaded
  /\ db_positions = [c \in Coins |-> Position(ScenarioEntry, ScenarioEntry, 0, FALSE)]
  /\ db_is_active = TRUE
  /\ db_tuning \in TuningRows
  /\ TuneAtStart /\ TechAtStart /\ BuyAtStart /\ ParAtStart /\ RestAtStart

NextCycle ==
  \/ \E fail_at \in FailPoints, b \in BalanceValues : CslStart(fail_at, b)
  \/ CslNoPrice
  \/ \E coin \in Coins, current_price \in Prices, others \in SUBSET Coins,
        expired, read_ok, write_ok \in BOOLEAN :
       CslCheck(coin, current_price, others, expired, read_ok, write_ok)

SpecCycle == InitCycle /\ [][NextCycle]_vars

(***************************************************************************)
(* auto_tune_trailing_stops (POST /learning/auto-tune).  Multipliers are   *)
(* in hundredths; total and premature count the completed exit analyses    *)
(* inside the learning window and those of them marked should_have_held.   *)
(***************************************************************************)
\* min_trades_for_learning of the bot_tuning row
min_trades_for_learning == 3
\* calls of the tuner in one behaviour
MaxRuns == 3

\* the multipliers the row can hold when the tuner first reads it
StoredMultipliers == {50, 100, 150, 300}

\* line 1996 with only its first test: "if not stats_result.data"
NotEnoughData_EmptyOnly(total, min_trades) == total = 0

\* line 1996: not stats_result.data or len(stats_result.data) < min_trades
NotEnoughData(total, min_trades) == total = 0 \/ total < min_trades

\* round(x, 2) of x = num / 10000; tie decides a value half way between two
\* hundredths, which the binary value of the product settles either way
Round2(num, tie) ==
  LET q == num \div 100
      r == num % 100
  IN  IF 2 * r < 100 THEN q ELSE IF 2 * r > 100 THEN q + 1 ELSE q + tie

\* the branches of lines 2020-2038 with the ends 80, 60 and 40 taken into the
\* upper branch
AdjustmentReason_BoundsIncluded(total, premature, current_normal) ==
  IF premature * 100 >= 80 * total THEN "URGENT"
  ELSE IF premature * 100 >= 60 * total THEN "HIGH"
  ELSE IF premature * 100 >= 40 * total THEN "MODERATE"
  ELSE IF premature * 100 < 20 * total /\ current_normal > 100 THEN "LOW"
  ELSE ""

\* lines 2020-2038: the label of the branch taken, "" when none is
AdjustmentReason(total, premature, current_normal) ==
  IF premature * 100 > 80 * total THEN "URGENT"
  ELSE IF premature * 100 > 60 * total THEN "HIGH"
  ELSE IF premature * 100 > 40 * total THEN "MODERATE"
  ELSE IF premature * 100 < 20 * total /\ current_normal > 100 THEN "LOW"
  ELSE ""

\* lines 2020-2038: the new value of one multiplier, in ten-thousandths
NewMultiplier(reason, current) ==
  IF reason = "URGENT" THEN Min(current * 130, 20000)
  ELSE IF reason = "HIGH" THEN Min(current * 120, 20000)
  ELSE IF reason = "MODERATE" THEN Min(current * 110, 20000)
  ELSE IF reason = "LOW" THEN Max(current * 95, 8000)
  ELSE current * 100

\* lines 1978-2061, every store call succeeding
AutoTune(total, premature, tie_normal, tie_bullrun) ==
  /\ tune_now < MaxRuns
  /\ tune_now' = tune_now + 1
  /\ IF NotEnoughData(total, min_trades_for_learning)
       THEN /\ tune_result' = [kind |-> "message", trades_analyzed |-> total,
                               premature_exits |-> NONE,
                               adjustment_made |-> FALSE]
            /\ UNCHANGED db_tuning
       ELSE LET current_normal == db_tuning.trail_multiplier
                current_bullrun == db_tuning.bullrun_trail_multiplier
                adjustment_reason == AdjustmentReason(total, premature, current_normal)
            IN  /\ tune_result' = [kind |-> "stats", trades_analyzed |-> total,
                                   premature_exits |-> premature,
                                   adjustment_made |-> adjustment_reason # ""]
                /\ db_tuning' =
                     IF adjustment_reason = "" THEN db_tuning
                     ELSE [ previous_trail_multiplier |-> current_normal,
                            trail_multiplier |->
                              Round2(NewMultiplier(adjustment_reason, current_normal),
                                     tie_normal),
                            bullrun_trail_multiplier |->
                              Round2(NewMultiplier(adjustment_reason, current_bullrun),
                                     tie_bullrun),
                            last_adjusted_at |-> tune_now',
                            adjustment_reason |-> adjustment_reason ]
  /\ UNCHANGED << db_is_active, db_positions, settings, balance, positions,
                  trail_multiplier_cache, trail_multiplier_cache_time, csl_pc,
                  csl_symbols, pa_pc, pa_n, pa_sell, last_trade, last_eval,
                  last_exit, last_notify, path >>
  /\ UNCHANGED << tech_vars, buy_vars, par_vars, rest_vars >>

\* lines 2063-2065: a store call raises, the handler answers 500
AutoTuneFails ==
  /\ tune_now < MaxRuns
  /\ tune_now' = tune_now + 1
  /\ tune_result' = [kind |-> "error", trades_analyzed |-> NONE,
                     premature_exits |-> NONE, adjustment_made |-> FALSE]
  /\ UNCHANGED << bot_vars, tech_vars, buy_vars, par_vars, rest_vars >>

InitTune ==
  /\ BotAtStart
  /\ db_is_active = TRUE
  /\ db_tuning \in { Tuning(n, b) : n \in StoredMultipliers, b \in StoredMultipliers }
  /\ TuneAtStart /\ TechAtStart /\ BuyAtStart /\ ParAtStart /\ RestAtStart

NextTune ==
  \/ \E total \in 0..MaxExits, tie_normal \in {0, 1}, tie_bullrun \in {0, 1} :
       \E premature \in 0..total :
         AutoTune(total, premature, tie_normal, tie_bullrun)
  \/ AutoTuneFails

SpecTune == InitTune /\ [][NextTune]_vars

(***************************************************************************)
(* _should_buy called once on arguments drawn from values on both sides of *)
(* every threshold of the chain.                                           *)
(***************************************************************************)
BuyCalls ==
  { [ given |-> TRUE, is_active |-> active, signal |-> signal, score |-> score,
      confidence |-> confidence, volume_24h |-> volume_24h, price |-> 1000,
      ema_200 |-> ema_200, adx |-> adx, volume_ratio |-> volume_ratio,
      timeframes_aligned |-> tf[1], higher_tf_trend |-> tf[2],
      is_favorable_regime |-> is_favorable_regime, volume_spike |-> FALSE,
      regime_confidence |-> 50, bullrun_score |-> bullrun[1],
      is_bullrun |-> bullrun[2] ] :
      active \in BOOLEAN, signal \in {"STRONG_BUY", "BUY", "HOLD"},
      score \in {50, 60, 65, 80},
      confidence \in {50, 60}, volume_24h \in {999999, 1000000},
      ema_200 \in {NONE, 990, 1010}, adx \in {NONE, 19, 20},
      volume_ratio \in {NONE, 9, 10, 200},
      tf \in { << TRUE, "BEARISH" >>, << FALSE, "BEARISH" >>, << FALSE, "NEUTRAL" >> },
      is_favorable_regime \in BOOLEAN,
      bullrun \in { << 0, FALSE >>, << 92, TRUE >> } }

\* the call self._should_buy(...) on a bot whose settings are the defaults
ShouldBuy ==
  /\ buy_in.given
  /\ buy_out = NONE
  /\ buy_out' = _should_buy_return(BotSettings(buy_in.is_active), buy_in)
  /\ UNCHANGED << buy_in, bot_vars, tune_vars, tech_vars, par_vars, rest_vars >>

InitBuy ==
  /\ BotAtStart
  /\ db_is_active = TRUE
  /\ db_tuning = Tuning(100, 100)
  /\ buy_in \in BuyCalls
  /\ buy_out = NONE
  /\ TuneAtStart /\ TechAtStart /\ ParAtStart /\ RestAtStart

NextBuy == ShouldBuy

SpecBuy == InitBuy /\ [][NextBuy]_vars

(***************************************************************************)
(* calculate_tech_signal(price, indicators).  Every section of the         *)
(* function is a step << change of the score, reason appended >>, with     *)
(* << 0, "" >> when no branch of the section is taken.  volume_ratio is in *)
(* hundredths.                                                             *)
(***************************************************************************)
AdxStep(ind) ==
  IF ind.adx < 20 THEN << -20, "Weak trend - AVOID" >>
  ELSE IF ind.adx >= 25 THEN << 10, "Strong trend" >>
  ELSE IF ind.adx >= 40 THEN << 15, "Very strong trend" >>
  ELSE << 0, "" >>

DiStep(ind) ==
  IF ind.adx_pos > ind.adx_neg THEN << 5, "+DI > -DI (bullish momentum)" >>
  ELSE IF ind.adx_neg > ind.adx_pos THEN << -5, "-DI > +DI (bearish momentum)" >>
  ELSE << 0, "" >>

VolumeStep(ind) ==
  IF ind.volume_spike THEN << 10, "Volume spike" >>
  ELSE IF ind.volume_ratio < 50 THEN << -10, "Low volume - weak signal" >>
  ELSE << 0, "" >>

RsiStep(ind) ==
  IF ind.rsi < 30 THEN << 20, "RSI oversold" >>
  ELSE IF ind.rsi > 70 THEN << -20, "RSI overbought" >>
  ELSE IF ind.rsi < 40 THEN << 10, "RSI low" >>
  ELSE IF ind.rsi > 60 THEN << -10, "RSI high" >>
  ELSE << 0, "" >>

MacdStep(ind) ==
  IF ind.macd > ind.macd_signal THEN << 15, "MACD bullish crossover" >>
  ELSE << -15, "MACD bearish" >>

EmaStep(ind) ==
  IF ind.ema_12 > ind.ema_26 THEN << 10, "EMA uptrend" >>
  ELSE << -10, "EMA downtrend" >>

Ema200Step(price, ind) ==
  IF ind.ema_200 = NONE \/ ind.ema_200 = 0 THEN << 0, "" >>
  ELSE IF price > ind.ema_200 THEN << 10, "Above EMA200 (bullish trend)" >>
  ELSE << -15, "Below EMA200 (bearish trend)" >>

BollingerStep(price, ind) ==
  IF price < ind.bb_lower THEN << 15, "Below Bollinger lower band" >>
  ELSE IF price > ind.bb_upper THEN << -15, "Above Bollinger upper band" >>
  ELSE << 0, "" >>

FinalStep(ind) ==
  IF ind.adx < 20 /\ ind.volume_ratio < 100
    THEN << -10, "No trend + low volume = NO TRADE" >>
    ELSE << 0, "" >>

TechSteps(price, ind) ==
  << AdxStep(ind), DiStep(ind), VolumeStep(ind), RsiStep(ind), MacdStep(ind),
     EmaStep(ind), Ema200Step(price, ind), BollingerStep(price, ind),
     FinalStep(ind) >>

RECURSIVE SumSteps(_)
SumSteps(steps) ==
  IF steps = << >> THEN 0 ELSE Head(steps)[1] + SumSteps(Tail(steps))

ReasonsOf(steps) ==
  LET taken == SelectSeq(steps, LAMBDA st : st[2] # "")
  IN  [i \in 1..Len(taken) |-> taken[i][2]]

\* the score as it is returned with line 674 left out
ClampScore_Missing(score) == score

\* line 674: score = max(0, min(100, score))
ClampScore(score) == Max(0, Min(100, score))

\* lines 676-686
SignalOf(score) ==
  IF score >= 70 THEN "STRONG_BUY"
  ELSE IF score >= 55 THEN "BUY"
  ELSE IF score <= 30 THEN "STRONG_SELL"
  ELSE IF score <= 45 THEN "SELL"
  ELSE "HOLD"

calculate_tech_signal(price, ind) ==
  LET steps == TechSteps(price, ind)
      score == ClampScore(50 + SumSteps(steps))
  IN  [ signal |-> SignalOf(score), score |-> score, reasons |-> ReasonsOf(steps) ]

\* the indicator bundles: values on every side of the thresholds of each section
TechInputs ==
  { [ given |-> TRUE, price |-> 1000, adx |-> adx, adx_pos |-> 20, adx_neg |-> adx_neg,
      volume_spike |-> volume_spike, volume_ratio |-> volume_ratio, rsi |-> rsi,
      macd |-> macd, macd_signal |-> 0, ema_12 |-> ema_12, ema_26 |-> 1000,
      ema_200 |-> ema_200, bb_lower |-> bb[1], bb_upper |-> bb[2] ] :
      adx \in {15, 22, 30, 45}, adx_neg \in {10, 20, 30}, volume_spike \in BOOLEAN,
      volume_ratio \in {40, 80, 120}, rsi \in {25, 35, 50, 65, 75},
      macd \in {-1, 1}, ema_12 \in {990, 1010}, ema_200 \in {NONE, 990, 1010},
      bb \in { << 900, 1100 >>, << 1010, 1100 >>, << 900, 990 >> } }

\* one more call on the same price and indicators
TechCall ==
  /\ tech_in.given
  /\ tech_prev' = tech_out
  /\ tech_out' = calculate_tech_signal(tech_in.price, tech_in)
  /\ UNCHANGED << tech_in, bot_vars, tune_vars, buy_vars, par_vars, rest_vars >>

InitTech ==
  /\ BotAtStart
  /\ db_is_active = TRUE
  /\ db_tuning = Tuning(100, 100)
  /\ tech_in \in TechInputs
  /\ tech_out = NoSignal
  /\ tech_prev = NoSignal
  /\ TuneAtStart /\ BuyAtStart /\ ParAtStart /\ RestAtStart

NextTech == TechCall

SpecTech == InitTech /\ [][NextTech]_vars

(***************************************************************************)
(* One indicator snapshot given to the live pipeline and to the            *)
(* backtester.  A snapshot holds the indicators of the candle (price =     *)
(* close, in tenths; volume_ratio and bb_width in hundredths and percent), *)
(* the ML signal of the analysis, and the position open in the symbol when *)
(* the snapshot arrives (entry_price NONE: no position).                   *)
(***************************************************************************)
\* analysis.py detect_market_regime: regime_confidence in hundredths
detect_market_regime(price, ind) ==
  LET above_200 == ind.ema_200 = NONE \/ ind.ema_200 = 0 \/ price > ind.ema_200
      conf == Min(50 + (ind.adx - 25) * 2, 100)
      R(regime, confidence, favorable) ==
        [ market_regime |-> regime, regime_confidence |-> confidence,
          is_favorable_regime |-> favorable ]
  IN  IF ind.adx # NONE /\ ind.adx # 0 /\ ind.adx >= 25
        THEN IF ind.adx_pos > ind.adx_neg /\ price > ind.ema_50 /\ above_200
               THEN R("TRENDING_UP", conf, TRUE)
             ELSE IF ind.adx_neg > ind.adx_pos /\ price < ind.ema_50
               THEN R("TRENDING_DOWN", conf, FALSE)
             ELSE IF price > ind.ema_50 THEN R("TRENDING_UP", 50, TRUE)
             ELSE R("TRENDING_DOWN", 50, FALSE)
      ELSE IF ind.adx # NONE /\ ind.adx # 0 /\ ind.adx < 20
        THEN IF ind.bb_width < 3 THEN R("RANGING", 70, FALSE)
             ELSE R("RANGING", 50, FALSE)
      ELSE IF ind.bb_width # 0 /\ ind.bb_width > 8 THEN R("VOLATILE", 60, FALSE)
      ELSE IF price > ind.ema_50 /\ above_200 THEN R("TRENDING_UP", 40, TRUE)
      ELSE IF price < ind.ema_50 THEN R("TRENDING_DOWN", 40, FALSE)
      ELSE R("RANGING", 30, FALSE)

\* analysis.py analyze_single_coin, lines 719-740: the trend of the 4h EMA50
higher_tf_trend(price, ema_50_4h) ==
  IF ema_50_4h = NONE \/ ema_50_4h = 0 THEN "NEUTRAL"
  ELSE IF price * 1000 > ema_50_4h * 1005 THEN "BULLISH"
  ELSE IF price * 1000 < ema_50_4h * 995 THEN "BEARISH"
  ELSE "NEUTRAL"

timeframes_aligned(price, ind) ==
  LET trend_1h == IF ind.ema_200 # NONE /\ price > ind.ema_200
                    THEN "BULLISH" ELSE "BEARISH"
      trend_4h == higher_tf_trend(price, ind.ema_50_4h)
  IN  ind.ema_50_4h # NONE /\ (trend_1h = trend_4h \/ trend_4h = "NEUTRAL")

\* the arguments the live pipeline passes to _should_buy and to
\* _calculate_position_size for the snapshot
LiveArgs(snap) ==
  LET regime == detect_market_regime(snap.price, snap) IN
  [ signal |-> snap.ml_signal, score |-> snap.ml_score,
    confidence |-> snap.ml_confidence, volume_24h |-> snap.volume_24h,
    price |-> snap.price, ema_200 |-> snap.ema_200, adx |-> snap.adx,
    volume_ratio |-> snap.volume_ratio,
    timeframes_aligned |-> timeframes_aligned(snap.price, snap),
    higher_tf_trend |-> higher_tf_trend(snap.price, snap.ema_50_4h),
    is_favorable_regime |-> regime.is_favorable_regime,
    volume_spike |-> snap.volume_spike,
    regime_confidence |-> regime.regime_confidence,
    bullrun_score |-> 0, is_bullrun |-> FALSE ]

\* the decisions of the live pipeline: the exit of a held position (by
\* check_stop_losses when it reaches its exit branches, else by _should_sell in
\* process_analysis_results), the entry when no position is held, and the
\* multiplier of the size
LiveDecision(s, snap) ==
  IF snap.entry_price # NONE
    THEN LET position == Position(snap.entry_price, snap.highest_price,
                                  snap.trailing_stop, FALSE)
             by_stop_check == IF LogLineRaises THEN ""
                              ELSE CslExitReason(s, position, snap.price)
         IN  [ given |-> TRUE,
               exit |-> IF by_stop_check # "" THEN by_stop_check
                        ELSE _should_sell(s, position, snap.price, snap.ml_signal,
                                          snap.ml_score),
               buy |-> FALSE, multiplier |-> 0 ]
    ELSE LET buy == _should_buy(s, LiveArgs(snap))
         IN  [ given |-> TRUE, exit |-> "", buy |-> buy,
               multiplier |-> IF buy THEN total_multiplier(LiveArgs(snap)) ELSE 0 ]

\* EnhancedBacktestConfig with the thresholds of the live bot
BacktestConfig(s) ==
  [ stop_loss_pct |-> s.stop_loss_percent, take_profit_pct |-> s.take_profit_percent,
    trailing_stop_pct |-> 30, min_adx |-> 20, min_volume_ratio |-> 10,
    require_ema200_above |-> TRUE, require_timeframe_alignment |-> TRUE,
    require_favorable_regime |-> TRUE, use_dynamic_sizing |-> TRUE,
    max_position_multiplier |-> 1500 ]

\* a variant of line 289 that calls the moderate uptrend favorable under the
\* label of a range
_detect_regime_RangingFavorable(row) ==
  IF row.adx = NONE \/ row.adx = 0
    THEN [regime |-> "UNKNOWN", conf |-> 0, is_favorable |-> FALSE]
  ELSE IF row.adx < 20 THEN [regime |-> "RANGING", conf |-> 60, is_favorable |-> FALSE]
  ELSE IF row.price > row.ema_50 /\ row.price > row.ema_200
    THEN [regime |-> "RANGING", conf |-> 40, is_favorable |-> TRUE]
  ELSE [regime |-> "TRENDING_DOWN", conf |-> 40, is_favorable |-> FALSE]

\* backtester.py _detect_regime: (regime, conf, is_favorable), conf in hundredths
_detect_regime(row) ==
  LET R(regime, conf, is_favorable) ==
        [regime |-> regime, conf |-> conf, is_favorable |-> is_favorable]
      conf == Min(50 + (row.adx - 25) * 2, 100)
      moderate == IF row.price > row.ema_50 /\ row.price > row.ema_200
                    THEN R("TRENDING_UP", 40, TRUE)
                  ELSE R("TRENDING_DOWN", 40, FALSE)
  IN  IF row.adx = NONE \/ row.adx = 0 THEN R("UNKNOWN", 0, FALSE)
      ELSE IF row.adx >= 25
        THEN IF /\ row.adx_pos > row.adx_neg /\ row.price > row.ema_50
                /\ row.price > row.ema_200
               THEN R("TRENDING_UP", conf, TRUE)
             ELSE IF row.adx_neg > row.adx_pos /\ row.price < row.ema_50
               THEN R("TRENDING_DOWN", conf, FALSE)
             ELSE moderate
      ELSE IF row.adx < 20 THEN R("RANGING", 60, FALSE)
      ELSE IF row.bb_width > 8 THEN R("VOLATILE", 60, FALSE)
      ELSE moderate

\* backtester.py _should_buy_enhanced
_should_buy_enhanced(row, cfg) ==
  LET price == row.price
      higher_tf_bullish == price * 1000 > row.ema_50_4h * 1005
      higher_tf_bearish == price * 1000 < row.ema_50_4h * 995
      trend_1h_bullish == IF row.ema_200 # NONE THEN price > row.ema_200 ELSE TRUE
  IN  IF cfg.require_ema200_above /\ row.ema_200 # NONE /\ price < row.ema_200
        THEN FALSE
      ELSE IF row.adx # NONE /\ row.adx < cfg.min_adx THEN FALSE
      ELSE IF row.volume_ratio # NONE /\ row.volume_ratio < cfg.min_volume_ratio
        THEN FALSE
      ELSE IF /\ cfg.require_timeframe_alignment /\ row.ema_50_4h # NONE
              /\ (higher_tf_bearish \/ ~(higher_tf_bullish \/ trend_1h_bullish))
        THEN FALSE
      ELSE IF cfg.require_favorable_regime /\ ~_detect_regime(row).is_favorable
        THEN FALSE
      ELSE TRUE

\* backtester.py _calculate_position_multiplier, in thousandths
_calculate_position_multiplier(row, cfg) ==
  IF ~cfg.use_dynamic_sizing THEN 1000
  ELSE LET by_adx == IF row.adx # NONE /\ row.adx >= 50 THEN 1150
                     ELSE IF row.adx # NONE /\ row.adx >= 35 THEN 1100
                     ELSE IF row.adx # NONE /\ row.adx >= 25 THEN 1050
                     ELSE 1000
           by_volume == IF row.volume_spike THEN MulK(by_adx, 1100) ELSE by_adx
       IN  Min(by_volume, cfg.max_position_multiplier)

\* backtester.py _simulate_enhanced_trading, lines 415-440: the exit of the
\* open position at this candle, named as the live pipeline names it, "" for none
BacktestExit(row, cfg) ==
  LET peak_price == Max(row.highest_price, row.price)
  IN  IF PnlLE(row.price, row.entry_price, cfg.stop_loss_pct) THEN "STOP_LOSS"
      ELSE IF PnlGE(row.price, row.entry_price, cfg.take_profit_pct) THEN "TAKE_PROFIT"
      ELSE IF /\ (row.price - row.entry_price) * 1000 > cfg.trailing_stop_pct * row.entry_price
              /\ row.price * 1000 < peak_price * (1000 - cfg.trailing_stop_pct)
        THEN "TRAILING_STOP"
      ELSE ""

\* one iteration of the loop of _simulate_enhanced_trading (lines 400-462)
BacktestDecision(s, row) ==
  LET cfg == BacktestConfig(s)
      exit == IF row.entry_price # NONE THEN BacktestExit(row, cfg) ELSE ""
      flat == row.entry_price = NONE \/ exit # ""
      buy == flat /\ _should_buy_enhanced(row, cfg)
  IN  [ given |-> TRUE, exit |-> exit, buy |-> buy,
        multiplier |-> IF buy THEN _calculate_position_multiplier(row, cfg) ELSE 0 ]

Snapshots ==
  { [ given |-> TRUE, price |-> 1000, ema_50 |-> ema_50, ema_200 |-> ema_200,
      adx |-> adx, adx_pos |-> 20, adx_neg |-> adx_neg, bb_width |-> bb_width,
      volume_ratio |-> volume[1], volume_spike |-> volume[2],
      ema_50_4h |-> ema_50_4h, volume_24h |-> 2000000,
      ml_signal |-> ml[1], ml_score |-> ml[2], ml_confidence |-> ml[3],
      entry_price |-> held[1], highest_price |-> held[2],
      trailing_stop |-> held[3] ] :
      ema_50 \in {990, 1010}, ema_200 \in {990, 1010}, adx \in {15, 22, 30},
      adx_neg \in {10, 30}, bb_width \in {5, 9},
      volume \in { << 9, FALSE >>, << 30, FALSE >>, << 160, TRUE >> },
      ema_50_4h \in {NONE, 990, 1000, 1010},
      ml \in { << "STRONG_BUY", 80, 80 >>, << "HOLD", 50, 50 >>, << "SELL", 30, 80 >> },
      held \in { << NONE, NONE, 0 >>, << 1030, 1030, 0 >>, << 970, 1000, 0 >>,
                 << 990, 1010, 100495000 >> } }

\* the snapshot goes through both pipelines
ParityRun ==
  /\ par_in.given
  /\ ~par_live.given
  /\ par_live' = LiveDecision(BotSettings(TRUE), par_in)
  /\ par_back' = BacktestDecision(BotSettings(TRUE), par_in)
  /\ UNCHANGED << par_in, bot_vars, tune_vars, tech_vars, buy_vars,
               rest_vars >>

InitParity ==
  /\ BotAtStart
  /\ db_is_active = TRUE
  /\ db_tuning = Tuning(100, 100)
  /\ par_in \in Snapshots
  /\ par_live = NoDecision
  /\ par_back = NoDecision
  /\ TuneAtStart /\ TechAtStart /\ BuyAtStart /\ RestAtStart

NextParity == ParityRun

SpecParity == InitParity /\ [][NextParity]_vars

(***************************************************************************)
(* TradingEngine (trading_engine.py 100-418): process_signal on the        *)
(* module's trading_engine instance.  Prices are in tenths, stop_loss and  *)
(* take_profit in thousandths of the price unit (price x 970 is 3% under   *)
(* the price), percentages of profit in hundredths, total_usdt in cents,   *)
(* amounts in millionths of a coin.                                        *)
(***************************************************************************)
MaxOrders == 2

EngSymbols == {"BTC"}
EngPrices == {900, 1000, 1100}

\* the fields of TradingConfig that no route changes (lines 78-97), and
\* max_position_size_pct, stop_loss_pct, take_profit_pct, min_signal_score at
\* their defaults
TradingConfig ==
  [ max_position_size_pct |-> 5, max_open_positions |-> 5, stop_loss_pct |-> 3,
    take_profit_pct |-> 6, trailing_stop_pct |-> 2, min_signal_score |-> 65,
    min_confidence |-> 60, daily_loss_limit_pct |-> 500 ]

\* the ModelPrediction a call is given
Prediction(signal, score, confidence) ==
  [signal |-> signal, score |-> score, confidence |-> confidence]

EngPredictions ==
  { Prediction("BUY", 70, 80), Prediction("SELL", 70, 80),
    Prediction("HOLD", 70, 80), Prediction("BUY", 50, 80),
    Prediction("BUY", 70, 50), Prediction("SELL", 30, 80) }

\* exchange_service.get_portfolio(): raises (NONE), or returns total_usdt.
\* ExchangeService (exchange.py) defines no method of that name, so the call
\* raises AttributeError on that class.
PortfolioOutcomes == {NONE, 0, 100000}

\* exchange_service.create_order(): raises, or returns an order whose status
\* is "closed" or something else.  ExchangeService (exchange.py) defines no
\* method of that name, so the call raises AttributeError on that class.
CreateOrderOutcomes == {"raises", "closed", "open"}

\* a Position of the engine (lines 62-73)
EnginePosition(side, entry_price, amount, stop_loss, take_profit) ==
  [ side |-> side, entry_price |-> entry_price, amount |-> amount,
    current_price |-> entry_price, unrealized_pnl_pct |-> 0,
    stop_loss |-> stop_loss, take_profit |-> take_profit ]

\* (a / b - 1) * 100, in hundredths
PctOver(a, b) ==
  LET d == (a - b) * 10000
  IN IF d >= 0 THEN d \div b ELSE -((-d) \div b)

\* _check_safety_conditions (lines 158-183): the daily reset it makes and
\* what it returns
_check_safety_conditions(new_day, cooldown_over) ==
  LET daily_pnl == IF new_day THEN 0 ELSE eng_daily_pnl
  IN [ daily_pnl |-> daily_pnl,
       ok |-> IF daily_pnl < -TradingConfig.daily_loss_limit_pct THEN FALSE
              ELSE IF eng_last_loss /\ ~cooldown_over THEN FALSE
              ELSE IF Cardinality(DOMAIN eng_positions)
                        >= TradingConfig.max_open_positions THEN FALSE
              ELSE TRUE ]

\* _should_trade (lines 185-199)
_should_trade(prediction) ==
  IF /\ prediction.score < TradingConfig.min_signal_score
     /\ prediction.score > 100 - TradingConfig.min_signal_score THEN FALSE
  ELSE IF prediction.confidence < TradingConfig.min_confidence THEN FALSE
  ELSE IF prediction.signal = "HOLD" THEN FALSE
  ELSE TRUE

\* TradingEngine._calculate_position_size (lines 355-376): the amount, 0 when
\* the portfolio cannot be read or is empty
TradingEngine_calculate_position_size(portfolio, current_price) ==
  IF portfolio = NONE THEN 0
  ELSE IF portfolio <= 0 THEN 0
  ELSE LET n == portfolio * TradingConfig.max_position_size_pct * 1000
       IN (2 * n + current_price) \div (2 * current_price)

\* a variant of _execute_order that reports a failed placement as placed
_execute_order_FailureReportedPlaced(testnet_only, exchange) ==
  IF testnet_only
    THEN [status |-> "FILLED", success |-> TRUE, exchange |-> ""]
  ELSE IF exchange = "raises"
    THEN [status |-> "FAILED", success |-> TRUE, exchange |-> exchange]
  ELSE IF exchange = "closed"
    THEN [status |-> "FILLED", success |-> TRUE, exchange |-> exchange]
  ELSE [status |-> "OPEN", success |-> TRUE, exchange |-> exchange]

\* _execute_order (lines 378-418): the status it leaves the order with, what
\* it returns, and how the one create_order call it makes off the testnet
\* ended
_execute_order(testnet_only, exchange) ==
  IF testnet_only
    THEN [status |-> "FILLED", success |-> TRUE, exchange |-> ""]
  ELSE IF exchange = "raises"
    THEN [status |-> "FAILED", success |-> FALSE, exchange |-> exchange]
  ELSE IF exchange = "closed"
    THEN [status |-> "FILLED", success |-> TRUE, exchange |-> exchange]
  ELSE [status |-> "OPEN", success |-> TRUE, exchange |-> exchange]

\* what a call leaves behind: self.positions, self.orders, self.daily_pnl,
\* self.last_loss_time is set, and the call itself
EngOutcome(positions_, orders_, daily_pnl, last_loss, call) ==
  [ positions |-> positions_, orders |-> orders_, daily_pnl |-> daily_pnl,
    last_loss |-> last_loss, call |-> call ]

\* _open_position (lines 201-257)
_open_position(symbol, prediction, current_price, daily_pnl, portfolio, exchange) ==
  LET side == IF prediction.signal \in {"BUY", "STRONG_BUY"} THEN "buy" ELSE "sell"
      amount == TradingEngine_calculate_position_size(portfolio, current_price)
      stop_loss == IF side = "buy"
                     THEN current_price * (1000 - 10 * TradingConfig.stop_loss_pct)
                     ELSE current_price * (1000 + 10 * TradingConfig.stop_loss_pct)
      take_profit ==
        IF side = "buy"
          THEN current_price * (1000 + 10 * TradingConfig.take_profit_pct)
          ELSE current_price * (1000 - 10 * TradingConfig.take_profit_pct)
      done == _execute_order(eng_config.testnet_only, exchange)
      order == [symbol |-> symbol, side |-> side, status |-> done.status]
  IN IF amount <= 0
       THEN EngOutcome(eng_positions, eng_orders, daily_pnl, eng_last_loss,
                       [symbol |-> symbol, returned |-> "none", placed |-> 0,
                        status |-> "", exchange |-> ""])
       ELSE EngOutcome(
              IF done.success
                THEN Put(eng_positions, symbol,
                         EnginePosition(side, current_price, amount, stop_loss,
                                        take_profit))
                ELSE eng_positions,
              Append(eng_orders, order), daily_pnl, eng_last_loss,
              [symbol |-> symbol,
               returned |-> IF done.success THEN "order" ELSE "none",
               placed |-> 1, status |-> done.status,
               exchange |-> done.exchange])

\* _close_position (lines 321-353) of a position that _manage_existing_position
\* has just priced
_close_position(symbol, priced, daily_pnl, exchange) ==
  LET position == priced[symbol]
      close_side == IF position.side = "buy" THEN "sell" ELSE "buy"
      done == _execute_order(eng_config.testnet_only, exchange)
      order == [symbol |-> symbol, side |-> close_side, status |-> done.status]
  IN EngOutcome(
       IF done.success THEN Remove(priced, symbol) ELSE priced,
       Append(eng_orders, order),
       IF done.success THEN daily_pnl + position.unrealized_pnl_pct
                       ELSE daily_pnl,
       IF done.success /\ position.unrealized_pnl_pct < 0 THEN TRUE
                                                          ELSE eng_last_loss,
       [symbol |-> symbol,
        returned |-> IF done.success THEN "order" ELSE "none",
        placed |-> 1, status |-> done.status, exchange |-> done.exchange])

\* _update_trailing_stop (lines 309-319)
_update_trailing_stop(position, current_price) ==
  LET new_stop == IF position.side = "buy"
                    THEN current_price * (1000 - 10 * TradingConfig.trailing_stop_pct)
                    ELSE current_price * (1000 + 10 * TradingConfig.trailing_stop_pct)
  IN IF position.side = "buy"
       THEN IF position.stop_loss # 0 /\ new_stop > position.stop_loss
              THEN [position EXCEPT !.stop_loss = new_stop] ELSE position
       ELSE IF position.stop_loss # 0 /\ new_stop < position.stop_loss
              THEN [position EXCEPT !.stop_loss = new_stop] ELSE position

\* _manage_existing_position (lines 259-307)
_manage_existing_position(symbol, prediction, current_price, daily_pnl, exchange) ==
  LET held == eng_positions[symbol]
      position ==
        [held EXCEPT !.current_price = current_price,
                     !.unrealized_pnl_pct =
                        IF held.side = "buy"
                          THEN PctOver(current_price, held.entry_price)
                          ELSE PctOver(held.entry_price, current_price)]
      priced == Put(eng_positions, symbol, position)
      at == current_price * 1000
      stop_hit == /\ position.stop_loss # 0
                  /\ \/ position.side = "buy" /\ at <= position.stop_loss
                     \/ position.side = "sell" /\ at >= position.stop_loss
      profit_hit == /\ position.take_profit # 0
                    /\ \/ position.side = "buy" /\ at >= position.take_profit
                       \/ position.side = "sell" /\ at <= position.take_profit
      current_is_buy == position.side = "buy"
      signal_is_buy == prediction.signal \in {"BUY", "STRONG_BUY"}
      reversal == /\ current_is_buy # signal_is_buy
                  /\ prediction.score >= TradingConfig.min_signal_score
  IN IF stop_hit \/ profit_hit \/ reversal
       THEN _close_position(symbol, priced, daily_pnl, exchange)
       ELSE EngOutcome(
              IF TradingConfig.trailing_stop_pct # 0
                THEN Put(priced, symbol,
                         _update_trailing_stop(position, current_price))
                ELSE priced,
              eng_orders, daily_pnl, eng_last_loss,
              [symbol |-> symbol, returned |-> "none", placed |-> 0,
               status |-> "", exchange |-> ""])

\* process_signal (lines 121-156), one whole call; eng_call keeps what the
\* call was given with what it did
process_signal(symbol, prediction, current_price, new_day, cooldown_over, portfolio, exchange) ==
  LET nothing(daily_pnl) ==
        EngOutcome(eng_positions, eng_orders, daily_pnl, eng_last_loss,
                   [symbol |-> symbol, returned |-> "none", placed |-> 0,
                    status |-> "", exchange |-> ""])
      safety == _check_safety_conditions(new_day, cooldown_over)
      out == IF ~eng_config.enabled THEN nothing(eng_daily_pnl)
             ELSE IF ~safety.ok THEN nothing(safety.daily_pnl)
             ELSE IF ~_should_trade(prediction) THEN nothing(safety.daily_pnl)
             ELSE IF symbol \in DOMAIN eng_positions
               THEN _manage_existing_position(symbol, prediction, current_price,
                                              safety.daily_pnl, exchange)
             ELSE _open_position(symbol, prediction, current_price,
                                 safety.daily_pnl, portfolio, exchange)
  IN /\ Len(eng_orders) < MaxOrders
     /\ eng_positions' = out.positions
     /\ eng_orders' = out.orders
     /\ eng_daily_pnl' = out.daily_pnl
     /\ eng_last_loss' = out.last_loss
     /\ eng_call' = out.call @@ [price |-> current_price, prediction |-> prediction]
     /\ UNCHANGED << eng_config, bot_vars, tune_vars, tech_vars, buy_vars,
                     par_vars, set_vars, ana_vars, size_vars, bt_vars, fn_vars,
                  run_vars >>

\* enable_auto_trading (routes_v2.py 193-209)
enable_auto_trading(enabled, testnet_only) ==
  /\ eng_config' = [enabled |-> enabled, testnet_only |-> testnet_only]
  /\ eng_call' = NoEngCall
  /\ UNCHANGED << eng_positions, eng_orders, eng_daily_pnl, eng_last_loss,
                  bot_vars, tune_vars, tech_vars, buy_vars, par_vars, set_vars,
                  ana_vars, size_vars, bt_vars, fn_vars,
                  run_vars >>

InitEngine ==
  /\ EngAtStart
  /\ BotAtStart
  /\ db_is_active = TRUE
  /\ db_tuning = Tuning(100, 100)
  /\ TuneAtStart /\ TechAtStart /\ BuyAtStart /\ ParAtStart
  /\ SetAtStart /\ AnaAtStart /\ SizeAtStart /\ BtAtStart /\ FnAtStart
  /\ RunAtStart

NextEngine ==
  \/ \E enabled \in BOOLEAN, testnet_only \in BOOLEAN :
       enable_auto_trading(enabled, testnet_only)
  \/ \E symbol \in EngSymbols, prediction \in EngPredictions,
        current_price \in EngPrices, new_day \in BOOLEAN,
        cooldown_over \in BOOLEAN, portfolio \in PortfolioOutcomes,
        exchange \in CreateOrderOutcomes :
       process_signal(symbol, prediction, current_price, new_day,
                      cooldown_over, portfolio, exchange)

SpecEngine == InitEngine /\ [][NextEngine]_vars

(***************************************************************************)
(* update_bot_settings (analysis.py 1573-1671) and the exchange            *)
(* configuration it sets (exchange.py 87-103).  A trading_type of "" is a  *)
(* parameter that is not given or is empty: the route tests its truth.     *)
(***************************************************************************)
TradingTypes == {"spot", "margin", "future"}

\* the trading_type and the leverage a request can carry
RequestTradingTypes == TradingTypes \cup {"", "swap"}
RequestLeverages == {NONE, 0, 1, 125, 126}

\* a variant of the range test that lets a leverage of 0 through
leverage_out_of_range_ZeroAllowed(leverage) == leverage < 0 \/ leverage > 125

\* the range test of analysis.py 1618 and of exchange.py 100
leverage_out_of_range(leverage) == leverage < 1 \/ leverage > 125

\* ExchangeService.set_trading_type (exchange.py 87-96): the configuration it
\* leaves, and whether it raises ValueError
set_trading_type(exchange, trading_type) ==
  IF trading_type \notin TradingTypes
    THEN [raises |-> TRUE, exchange |-> exchange]
    ELSE [raises |-> FALSE,
          exchange |-> [exchange EXCEPT !.trading_type = trading_type,
                                        !.initialized = FALSE]]

\* ExchangeService.set_leverage (exchange.py 98-103)
set_leverage(exchange, leverage) ==
  IF leverage_out_of_range(leverage)
    THEN [raises |-> TRUE, exchange |-> exchange]
    ELSE [raises |-> FALSE,
          exchange |-> [exchange EXCEPT !.leverage = leverage]]

Reply(status_code, trading_type, leverage) ==
  [status_code |-> status_code, trading_type |-> trading_type,
   leverage |-> leverage]

\* update_bot_settings, one whole call: supabase is the module's client being
\* there, exchange_available is EXCHANGE_AVAILABLE and exchange_service,
\* store_ok is the update and the select of bot_settings not raising
update_bot_settings(trading_type, leverage, supabase, exchange_available, store_ok) ==
  LET type_set == IF trading_type # "" /\ exchange_available
                    THEN set_trading_type(set_exchange, trading_type)
                    ELSE [raises |-> FALSE, exchange |-> set_exchange]
      leverage_set == IF leverage # NONE /\ exchange_available
                        THEN set_leverage(type_set.exchange, leverage)
                        ELSE [raises |-> FALSE, exchange |-> type_set.exchange]
      updates == [ trading_type |-> IF trading_type # "" THEN trading_type
                                    ELSE set_row.trading_type,
                   leverage |-> IF leverage # NONE THEN leverage
                                ELSE set_row.leverage ]
      out ==
        IF ~supabase
          THEN [status_code |-> 503, row |-> set_row, exchange |-> set_exchange]
        ELSE IF trading_type # "" /\ trading_type \notin TradingTypes
          THEN [status_code |-> 400, row |-> set_row, exchange |-> set_exchange]
        ELSE IF type_set.raises
          THEN [status_code |-> 500, row |-> set_row, exchange |-> set_exchange]
        ELSE IF leverage # NONE /\ leverage_out_of_range(leverage)
          THEN [status_code |-> 400, row |-> set_row,
                exchange |-> type_set.exchange]
        ELSE IF leverage_set.raises
          THEN [status_code |-> 500, row |-> set_row,
                exchange |-> type_set.exchange]
        ELSE IF ~store_ok
          THEN [status_code |-> 500, row |-> set_row,
                exchange |-> leverage_set.exchange]
        ELSE [status_code |-> 200, row |-> updates,
              exchange |-> leverage_set.exchange]
  IN /\ set_row' = out.row
     /\ set_exchange' = out.exchange
     /\ set_response' = Reply(out.status_code, trading_type, leverage)
     /\ UNCHANGED << bot_vars, tune_vars, tech_vars, buy_vars, par_vars,
                     eng_vars, ana_vars, size_vars, bt_vars, fn_vars,
                  run_vars >>

\* ExchangeService.initialize (exchange.py 40-85) with the configured type
ExchangeInitialize ==
  /\ ~set_exchange.initialized
  /\ set_exchange' = [set_exchange EXCEPT !.initialized = TRUE]
  /\ set_response' = NoReply
  /\ UNCHANGED << set_row, bot_vars, tune_vars, tech_vars, buy_vars, par_vars,
                  eng_vars, ana_vars, size_vars, bt_vars, fn_vars,
                  run_vars >>

InitSettings ==
  /\ SetAtStart
  /\ BotAtStart
  /\ db_is_active = TRUE
  /\ db_tuning = Tuning(100, 100)
  /\ TuneAtStart /\ TechAtStart /\ BuyAtStart /\ ParAtStart
  /\ EngAtStart /\ AnaAtStart /\ SizeAtStart /\ BtAtStart /\ FnAtStart
  /\ RunAtStart

NextSettings ==
  \/ ExchangeInitialize
  \/ \E trading_type \in RequestTradingTypes, leverage \in RequestLeverages,
        supabase \in BOOLEAN, exchange_available \in BOOLEAN,
        store_ok \in BOOLEAN :
       update_bot_settings(trading_type, leverage, supabase,
                           exchange_available, store_ok)

SpecSettings == InitSettings /\ [][NextSettings]_vars

(***************************************************************************)
(* analyze_single_coin (analysis.py 689-837): the signal part of the       *)
(* result, lines 764-783 and 826-832.  Confidence is in hundredths.        *)
(***************************************************************************)
\* the indicators a coin can come with
AnaIndicators ==
  { ind \in TechInputs :
      /\ ind.adx \in {15, 45} /\ ind.adx_neg = 10 /\ ind.volume_ratio = 80
      /\ ind.rsi \in {25, 50} /\ ind.ema_200 # 990 }

\* what model.predict would hand back if it returned
MlPredictions ==
  { [signal |-> "STRONG_SELL", score |-> 20, confidence |-> 90,
     top_reasons |-> << "RSI overbought at 80.0 (bearish)" >>] }

\* a call: the market data that was fetched, ML_AVAILABLE (the import of
\* lines 24-31), HybridModel() returning, and the state of the model it built
AnaCalls ==
  { [ given |-> TRUE, fetched |-> fetched, price |-> ind.price,
      indicators |-> ind, ml_available |-> ml_available,
      constructs |-> constructs, is_trained |-> is_trained,
      xgboost_available |-> xgboost_available, prediction |-> prediction ] :
      fetched \in BOOLEAN, ind \in AnaIndicators, ml_available \in BOOLEAN,
      constructs \in BOOLEAN, is_trained \in BOOLEAN,
      xgboost_available \in BOOLEAN, prediction \in MlPredictions }

\* HybridModel._rule_based_prediction (hybrid_model.py 177-318): it reads the
\* attributes of a FeatureVector, and raises AttributeError on anything else
_rule_based_prediction(features) ==
  IF features = "FeatureVector" THEN "returns" ELSE "raises"

\* HybridModel.predict (hybrid_model.py 134-175): whether it returns or
\* raises.  Untrained, it goes straight to the rule-based prediction; trained,
\* to_array() of line 160 raises on anything but a FeatureVector and the
\* handler of line 173 goes to the rule-based prediction as well.
predict(current_features, is_trained, xgboost_available) ==
  IF ~is_trained \/ ~xgboost_available
    THEN _rule_based_prediction(current_features)
  ELSE IF current_features = "FeatureVector" THEN "returns"
  ELSE _rule_based_prediction(current_features)

\* a variant of line 769 that gives every fallback the confidence 0.5
fallback_confidence_Neutral(tech_score) == 50

\* line 769: 0.5 + abs(tech_score - 50) / 100
fallback_confidence(tech_score) ==
  50 + (IF tech_score >= 50 THEN tech_score - 50 ELSE 50 - tech_score)

\* ml_reasons[:3] of line 830
FirstThree(reasons) == SubSeq(reasons, 1, Min(3, Len(reasons)))

\* lines 764-783 and 826-832: model.predict is handed klines, the list of
\* candles, as its current_features
AnalysisSignal(call) ==
  LET tech == calculate_tech_signal(call.price, call.indicators)
      ml == IF ~call.ml_available THEN "absent"
            ELSE IF ~call.constructs THEN "construct_raises"
            ELSE IF predict("klines", call.is_trained,
                            call.xgboost_available) = "raises"
              THEN "predict_raises"
            ELSE "predicted"
      predicted == ml = "predicted"
  IN [ given |-> TRUE, returned |-> "result", ml |-> ml,
       ml_signal |-> IF predicted THEN call.prediction.signal ELSE tech.signal,
       ml_score |-> IF predicted THEN call.prediction.score ELSE tech.score,
       ml_confidence |-> IF predicted THEN call.prediction.confidence
                         ELSE fallback_confidence(tech.score),
       top_reasons |-> FirstThree(IF predicted THEN call.prediction.top_reasons
                                               ELSE tech.reasons),
       tech_signal |-> tech.signal, tech_score |-> tech.score ]

\* analyze_single_coin returning None (lines 700-702)
NoAnalysis ==
  [ given |-> TRUE, returned |-> "none", ml |-> "", ml_signal |-> "",
    ml_score |-> NONE, ml_confidence |-> NONE, top_reasons |-> << >>,
    tech_signal |-> "", tech_score |-> NONE ]

analyze_single_coin ==
  /\ ana_in.given
  /\ ~ana_out.given
  /\ ana_out' = IF ~ana_in.fetched THEN NoAnalysis ELSE AnalysisSignal(ana_in)
  /\ UNCHANGED << ana_in, bot_vars, tune_vars, tech_vars, buy_vars, par_vars,
                  eng_vars, set_vars, size_vars, bt_vars, fn_vars,
                  run_vars >>

InitAnalyze ==
  /\ ana_in \in AnaCalls
  /\ ana_out = NoResult
  /\ BotAtStart
  /\ db_is_active = TRUE
  /\ db_tuning = Tuning(100, 100)
  /\ TuneAtStart /\ TechAtStart /\ BuyAtStart /\ ParAtStart
  /\ EngAtStart /\ SetAtStart /\ SizeAtStart /\ BtAtStart /\ FnAtStart
  /\ RunAtStart

NextAnalyze == analyze_single_coin

SpecAnalyze == InitAnalyze /\ [][NextAnalyze]_vars

(***************************************************************************)
(* SupabaseTradingBot._calculate_position_size (trading_engine.py          *)
(* 879-974) down to the quantity it returns.  Money is in cents, the price *)
(* in tenths, multipliers in thousandths, the quantity in units of 1e-8    *)
(* coin, the eighth decimal the function rounds to.                        *)
(***************************************************************************)
\* units of 1e-8 coin that one cent buys at a price of one tenth
QuantityScale == 10000000

\* lines 906-962: position_value before the minimum trade value is applied
capped_position_value(s, balance_usdt, a) ==
  LET base_value == (balance_usdt * s.max_position_size_percent) \div 100
  IN Min(MulK(base_value, total_multiplier(a)), (balance_usdt * 95) \div 100)

\* lines 968 and 974: round(position_value / price, 8), computed as
\* position_value * QuantityScale / price with the product split so that it
\* stays in range
position_quantity(position_value, price) ==
  LET whole == QuantityScale \div price
      rest == QuantityScale % price
  IN position_value * whole
       + (2 * position_value * rest + price) \div (2 * price)

\* the call: what it multiplied by, the position value it sized, and the
\* quantity it returned
SizeResult(s, balance_usdt, a, price) ==
  LET position_value == _calculate_position_size(s, balance_usdt, a)
  IN [ given |-> TRUE, multiplier |-> total_multiplier(a),
       capped_value |-> IF balance_usdt = NONE THEN NONE
                        ELSE capped_position_value(s, balance_usdt, a),
       position_value |-> position_value,
       quantity |-> IF position_value = 0 THEN 0
                    ELSE position_quantity(position_value, price) ]

\* the calls: balances around the minimum trade value, the default
\* max_position_size_percent and one under which the reserve binds; is_bullrun
\* as detect_bullrun sets it, bullrun_score >= 65 (analysis.py, line 549)
SizeCalls ==
  { [ given |-> TRUE, balance_usdt |-> balance_usdt,
      max_position_size_percent |-> percent, price |-> price,
      confidence |-> confidence, adx |-> adx, volume_spike |-> volume_spike,
      regime_confidence |-> regime_confidence, bullrun_score |-> bullrun[2],
      is_bullrun |-> bullrun[1] ] :
      balance_usdt \in {NONE, 0, 1000, 4000, 5000, 10000},
      percent \in {20, 100}, price \in {7000, 300000},
      confidence \in {0, 40, 80, 100}, adx \in {NONE, 25, 50},
      volume_spike \in BOOLEAN, regime_confidence \in {0, 100},
      bullrun \in { << FALSE, 0 >>, << TRUE, 67 >>, << TRUE, 75 >>, << TRUE, 85 >>,
                  << TRUE, 95 >> } }

CalculatePositionSize ==
  /\ size_in.given
  /\ ~size_out.given
  /\ size_out' =
       SizeResult([BotSettings(TRUE) EXCEPT !.max_position_size_percent =
                                              size_in.max_position_size_percent],
                  size_in.balance_usdt, size_in, size_in.price)
  /\ UNCHANGED << size_in, bot_vars, tune_vars, tech_vars, buy_vars, par_vars,
                  eng_vars, set_vars, ana_vars, bt_vars, fn_vars,
                  run_vars >>

InitSize ==
  /\ size_in \in SizeCalls
  /\ size_out = NoResult
  /\ BotAtStart
  /\ db_is_active = TRUE
  /\ db_tuning = Tuning(100, 100)
  /\ TuneAtStart /\ TechAtStart /\ BuyAtStart /\ ParAtStart
  /\ EngAtStart /\ SetAtStart /\ AnaAtStart /\ BtAtStart /\ FnAtStart
  /\ RunAtStart

NextSize == CalculatePositionSize

SpecSize == InitSize /\ [][NextSize]_vars

(***************************************************************************)
(* The backtester (backtester.py).  One run of run_backtest or of          *)
(* run_enhanced_backtest over a series of candles: the 200 candles of the  *)
(* warm-up are behind, bt_n candles follow and the loop of the simulator   *)
(* takes them one by one.  Prices are in tenths, money in cents, percents  *)
(* of the configuration in tenths, pnl_pct and the percents of the result  *)
(* in hundredths, times in candles (hours).  A position keeps              *)
(* position_value, the money put in; its amount is position_value /        *)
(* entry_price wherever the code uses it.                                  *)
(***************************************************************************)
MaxSnapshots == 3

\* BacktestConfig, lines 90-98, as routes_v2.py run_backtest leaves it by default
Backtester_config ==
  [ initial_capital |-> 1000000, position_size_pct |-> 100, stop_loss_pct |-> 30,
    take_profit_pct |-> 60, min_signal_score |-> 65, commission_pct |-> 1,
    slippage_pct |-> 5 ]

\* EnhancedBacktestConfig, lines 102-122 (slippage_pct in hundredths)
EnhancedBacktestConfig ==
  [ initial_capital |-> 1000000, position_size_pct |-> 100, stop_loss_pct |-> -50,
    take_profit_pct |-> 100, trailing_stop_pct |-> 30, commission_pct |-> 1,
    slippage_pct |-> 5, min_adx |-> 20, min_volume_ratio |-> 50,
    require_ema200_above |-> TRUE, require_timeframe_alignment |-> TRUE,
    require_favorable_regime |-> TRUE, use_dynamic_sizing |-> TRUE,
    max_position_multiplier |-> 1500 ]

\* the configs run_enhanced_backtest is called with: the default, the one
\* /backtest builds for a request with initial_capital 5000 (analysis.py
\* 1770-1781), one with commission_pct 0.2 and slippage_pct 0.1
EnhancedConfigs ==
  { EnhancedBacktestConfig,
    [EnhancedBacktestConfig EXCEPT !.initial_capital = 500000],
    [EnhancedBacktestConfig EXCEPT !.commission_pct = 2, !.slippage_pct = 10] }

\* the close of the first candle of the data; the run needs 200 candles
\* (line 159) or 250 (line 201), the loops start at candle 200
WarmUpCloses == {1900, 2000}

\* the closes of the candles
BtPrices == {1900, 2000, 2070, 2190, 2210}

\* the rows of df_1h after _calculate_indicators: an uptrend the filters admit
\* (adx 30) or a weak one they refuse (adx 15)
BtRow(price, adx) ==
  [ price |-> price, ema_50 |-> price - 10, ema_200 |-> price - 20, adx |-> adx,
    adx_pos |-> 20, adx_neg |-> 10, bb_width |-> 5, volume_ratio |-> 100,
    volume_spike |-> FALSE, ema_50_4h |-> NONE ]

BtRows == { BtRow(price, adx) : price \in BtPrices, adx \in {15, 30} }

\* what self.model.predict returns for the candle
BtPredictions ==
  { [signal |-> "STRONG_BUY", score |-> 70], [signal |-> "SELL", score |-> 70],
    [signal |-> "HOLD", score |-> 50] }

\* "BUY" in prediction.signal, "SELL" in prediction.signal
InSignal(word, signal) ==
  IF word = "BUY" THEN signal \in {"BUY", "STRONG_BUY"}
  ELSE signal \in {"SELL", "STRONG_SELL"}

\* price * (1 + pct / 100) and price * (1 - pct / 100), pct in hundredths of a
\* percent
Slipped(price, pct, up) ==
  IF up THEN (price * (10000 + pct)) \div 10000
  ELSE (price * (10000 - pct)) \div 10000

\* the BacktestTrade record of a position closed at actual_exit, with the
\* commission (in tenths of a percent) taken from pnl; position_value stands
\* for amount, which is position_value / entry_price
BacktestTrade(position, actual_exit, exit_time, reason, commission_pct) ==
  LET buy == position.side = "buy"
      move == IF buy THEN actual_exit - position.entry_price
              ELSE position.entry_price - actual_exit
      base == IF buy THEN position.entry_price ELSE actual_exit
  IN  [ entry_time |-> position.entry_time, exit_time |-> exit_time,
        side |-> position.side, entry_price |-> position.entry_price,
        exit_price |-> actual_exit,
        position_value |-> position.position_value,
        pnl |-> (position.position_value * move) \div position.entry_price
                - (position.position_value * actual_exit * commission_pct)
                    \div (position.entry_price * 1000),
        pnl_pct |-> (move * 10000) \div base,
        exit_reason |-> reason ]

\* _create_trade, lines 490-515: the trade of the enhanced simulator, with
\* slippage 0.05 / 100 and commission 0.1 / 100 written into the method
_create_trade(position, exit_price, exit_time, reason) ==
  BacktestTrade(position, Slipped(exit_price, 5, FALSE), exit_time, reason, 1)

\* Backtester._close_position, lines 680-713: the trade of _simulate_trading, with
\* slippage_pct and commission_pct of self.config
Backtester_close_position(position, exit_price, exit_time, reason, config) ==
  BacktestTrade(position,
                Slipped(exit_price, config.slippage_pct, position.side # "buy"),
                exit_time, reason, config.commission_pct)

\* _simulate_trading, lines 585-617: the exit of the open position at the
\* candle, "" for none
SimpleExit(position, current_price, prediction, config) ==
  LET buy == position.side = "buy"
      gain == IF buy THEN current_price - position.entry_price
              ELSE position.entry_price - current_price
      base == IF buy THEN position.entry_price ELSE current_price
      against == IF buy THEN "SELL" ELSE "BUY"
  IN  IF gain * 1000 <= (0 - config.stop_loss_pct) * base THEN "STOP_LOSS"
      ELSE IF gain * 1000 >= config.take_profit_pct * base THEN "TAKE_PROFIT"
      ELSE IF /\ InSignal(against, prediction.signal)
              /\ prediction.score >= config.min_signal_score
        THEN "SIGNAL_REVERSAL"
      ELSE ""

\* position_value *= (1 - commission_pct / 100), after capital *
\* (position_size_pct / 100) * multiplier
PositionValue(capital, config, multiplier) ==
  LET sized == MulK((capital * config.position_size_pct) \div 1000, multiplier)
  IN  (sized * (1000 - config.commission_pct)) \div 1000

\* lines 464-469 and 654-662: capital with the open position marked at the close
CurrentEquity(capital, position, current_price) ==
  IF position = NoBtPosition THEN capital
  ELSE IF position.side = "buy"
    THEN capital + (position.position_value * (current_price - position.entry_price))
                     \div position.entry_price
  ELSE capital + (position.position_value * (position.entry_price - current_price))
                   \div position.entry_price

\* a sum and the extremes of a field of the trades
RECURSIVE SumOf(_, _)
SumOf(f, ts) == IF ts = << >> THEN 0 ELSE f[Head(ts)] + SumOf(f, Tail(ts))

\* the running maximum of the curve up to its k-th point
RECURSIVE PeakAt(_, _)
PeakAt(curve, k) == IF k = 1 THEN curve[1] ELSE Max(PeakAt(curve, k - 1), curve[k])

\* lines 765-767: drawdown in hundredths of a percent at the k-th point
DrawdownAt(curve, k) ==
  0 - (((PeakAt(curve, k) - curve[k]) * 10000) \div PeakAt(curve, k))

SetMin(S) == CHOOSE x \in S : \A y \in S : x <= y
SetMax(S) == CHOOSE x \in S : \A y \in S : x >= y

\* a variant of line 751 that divides whatever gross_loss is
profit_factor_Unguarded(gross_profit, gross_loss) ==
  IF gross_loss > 0
    THEN [is |-> "number", value |-> (gross_profit * 100) \div gross_loss]
  ELSE IF gross_profit > 0 THEN [is |-> "inf", value |-> 0]
  ELSE [is |-> "nan", value |-> 0]

\* line 751: gross_profit / gross_loss in hundredths, float('inf') without losses
profit_factor(gross_profit, gross_loss) ==
  IF gross_loss > 0
    THEN [is |-> "number", value |-> (gross_profit * 100) \div gross_loss]
  ELSE [is |-> "inf", value |-> 0]

\* lines 754-758: the standard deviation of the returns of the curve, as far as
\* the tests of lines 757 and 762 tell it apart: NaN for a single return
Volatility(curve) ==
  IF Len(curve) = 2 THEN "nan"
  ELSE IF \A k \in 2..Len(curve) : curve[k] = curve[1] THEN "zero"
  ELSE "positive"

\* _calculate_metrics, lines 715-810, with initial_capital of self.config and
\* start_price, end_price the first and the last close of ohlcv
_calculate_metrics(trades, equity_curve, ohlcv) ==
  LET initial_capital == Backtester_config.initial_capital
      start_price == ohlcv.first_close
      end_price == ohlcv.last_close
      buy_hold_return == ((end_price - start_price) * 10000) \div start_price
      final_equity == IF equity_curve # << >> THEN equity_curve[Len(equity_curve)]
                      ELSE initial_capital
      Won(t) == t.pnl > 0
      Lost(t) == t.pnl < 0
      winning_trades == SelectSeq(trades, Won)
      losing_trades == SelectSeq(trades, Lost)
      pnl == [t \in {trades[k] : k \in 1..Len(trades)} |-> t.pnl]
      pnl_pct == [t \in {trades[k] : k \in 1..Len(trades)} |-> t.pnl_pct]
      hours == [t \in {trades[k] : k \in 1..Len(trades)} |-> t.exit_time - t.entry_time]
      gross_profit == SumOf(pnl, winning_trades)
      gross_loss == 0 - SumOf(pnl, losing_trades)
      risk == Len(equity_curve) > 1
      volatility == IF risk THEN Volatility(equity_curve) ELSE "zero"
      total_return == ((final_equity - initial_capital) * 100)
                        \div (initial_capital \div 100)
  IN  [ given |-> TRUE,
        total_return_pct |-> total_return,
        buy_and_hold_return_pct |-> buy_hold_return,
        alpha |-> total_return - buy_hold_return,
        max_drawdown_pct |->
          IF risk THEN SetMin({ DrawdownAt(equity_curve, k) :
                                  k \in 1..Len(equity_curve) })
          ELSE 0,
        volatility |-> volatility,
        sharpe_ratio_zero |-> volatility # "positive",
        total_trades |-> Len(trades),
        winning_trades |-> Len(winning_trades),
        losing_trades |-> Len(losing_trades),
        win_rate |-> IF trades # << >>
                       THEN (Len(winning_trades) * 10000) \div Len(trades) ELSE 0,
        profit_factor |-> profit_factor(gross_profit, gross_loss),
        avg_win_pct |-> IF winning_trades # << >>
                          THEN SumOf(pnl_pct, winning_trades) \div Len(winning_trades)
                        ELSE 0,
        avg_loss_pct |-> IF losing_trades # << >>
                           THEN SumOf(pnl_pct, losing_trades) \div Len(losing_trades)
                         ELSE 0,
        largest_win_pct |-> IF trades # << >>
                              THEN SetMax({ trades[k].pnl_pct : k \in 1..Len(trades) })
                            ELSE 0,
        largest_loss_pct |-> IF trades # << >>
                               THEN SetMin({ trades[k].pnl_pct : k \in 1..Len(trades) })
                             ELSE 0,
        avg_trade_duration_hours |->
          IF trades # << >> THEN SumOf(hours, trades) \div Len(trades) ELSE 0,
        trades |-> trades,
        equity_curve |-> equity_curve ]

\* lines 444-462: the position the entry pipeline of the enhanced simulator
\* opens at the candle
EnhancedEntry(row, capital, time, cfg) ==
  [ side |-> "buy", entry_price |-> Slipped(row.price, cfg.slippage_pct, TRUE),
    entry_time |-> time,
    position_value |-> PositionValue(capital, cfg,
                                     _calculate_position_multiplier(row, cfg)),
    signal_score |-> 70 ]

\* lines 620-647: the position _simulate_trading opens on the prediction
SimpleEntry(prediction, current_price, capital, time, config) ==
  [ side |-> IF InSignal("BUY", prediction.signal) THEN "buy" ELSE "sell",
    entry_price |-> Slipped(current_price, config.slippage_pct,
                            InSignal("BUY", prediction.signal)),
    entry_time |-> time,
    position_value |-> PositionValue(capital, config, 1000),
    signal_score |-> prediction.score ]

\* what one pass of a simulator's loop leaves: exit is the reason of the trade
\* it closed, opened the position it holds afterwards
LoopPass(exit, trade, opened, row_price) ==
  LET capital == IF exit # "" THEN bt_capital + trade.pnl ELSE bt_capital
  IN  /\ bt_trades' = IF exit # "" THEN Append(bt_trades, trade) ELSE bt_trades
      /\ bt_capital' = capital
      /\ bt_position' = opened
      /\ bt_entries' = IF opened # NoBtPosition /\ opened # bt_position
                         THEN Append(bt_entries, opened.entry_time)
                       ELSE bt_entries
      /\ bt_equity_curve' = Append(bt_equity_curve,
                                   CurrentEquity(capital, opened, row_price))
      /\ bt_i' = bt_i + 1
      /\ bt_ohlcv' = [ bt_ohlcv EXCEPT
                         !.start_close = IF bt_i = 0 THEN row_price ELSE @,
                         !.last_close = row_price ]
      /\ bt_step' = [ price |-> row_price,
                      open_at_start |-> bt_position # NoBtPosition,
                      exit |-> exit,
                      entered |-> opened # NoBtPosition /\ opened # bt_position ]

\* _simulate_enhanced_trading, lines 398-469: the loop takes the next candle
SimulateEnhancedStep ==
  /\ bt_sim = "enhanced"
  /\ bt_i < bt_n
  /\ ~bt_result.given
  /\ \E row \in BtRows :
       LET cfg == bt_cfg
           held == row @@ [ entry_price |-> bt_position.entry_price,
                            highest_price |-> bt_peak_price ]
           exit == IF bt_position # NoBtPosition THEN BacktestExit(held, cfg) ELSE ""
           trade == _create_trade(bt_position, row.price, bt_i + 1, exit)
           capital == IF exit # "" THEN bt_capital + trade.pnl ELSE bt_capital
           flat == bt_position = NoBtPosition \/ exit # ""
           opened == IF flat
                       THEN IF _should_buy_enhanced(row, cfg)
                              THEN EnhancedEntry(row, capital, bt_i + 1, cfg)
                            ELSE NoBtPosition
                     ELSE bt_position
       IN  /\ LoopPass(exit, trade, opened, row.price)
           /\ bt_peak_price' = IF flat THEN opened.entry_price
                               ELSE Max(bt_peak_price, row.price)
  /\ UNCHANGED << bt_sim, bt_n, bt_result, bt_cfg >>
  /\ UNCHANGED << bot_vars, tune_vars, tech_vars, buy_vars, par_vars, eng_vars,
                  set_vars, ana_vars, size_vars, fn_vars,
                  run_vars >>

\* _simulate_trading, lines 563-664: the loop takes the next candle
SimulateStep ==
  /\ bt_sim = "simple"
  /\ bt_i < bt_n
  /\ ~bt_result.given
  /\ \E current_price \in BtPrices, prediction \in BtPredictions :
       LET config == bt_cfg
           exit == IF bt_position # NoBtPosition
                     THEN SimpleExit(bt_position, current_price, prediction, config)
                   ELSE ""
           trade == Backtester_close_position(bt_position, current_price, bt_i + 1, exit,
                                    config)
           capital == IF exit # "" THEN bt_capital + trade.pnl ELSE bt_capital
           flat == bt_position = NoBtPosition \/ exit # ""
           opened == IF flat
                       THEN IF /\ prediction.score >= config.min_signal_score
                               /\ \/ InSignal("BUY", prediction.signal)
                                  \/ InSignal("SELL", prediction.signal)
                              THEN SimpleEntry(prediction, current_price, capital,
                                               bt_i + 1, config)
                            ELSE NoBtPosition
                     ELSE bt_position
       IN  LoopPass(exit, trade, opened, current_price)
  /\ UNCHANGED << bt_sim, bt_n, bt_peak_price, bt_result, bt_cfg >>
  /\ UNCHANGED << bot_vars, tune_vars, tech_vars, buy_vars, par_vars, eng_vars,
                  set_vars, ana_vars, size_vars, fn_vars,
                  run_vars >>

\* a variant of lines 478-488 and 668-678 that returns the ledger as the loop
\* left it
CloseRemaining_Skipped(trades, position, trade) == trades

\* lines 478-488 and 668-678: the position the loop left open is closed at the
\* close of the last candle, trade being what _create_trade or _close_position
\* makes of it
CloseRemaining(trades, position, trade) ==
  IF position # NoBtPosition THEN Append(trades, trade) ELSE trades

\* lines 478-488 and 668-678, then lines 167-176 and 214-222: the loop is over,
\* the simulator closes the position that is left and returns (its locals are
\* gone), the run calculates the metrics
BacktestReturn ==
  /\ bt_i = bt_n
  /\ ~bt_result.given
  /\ LET last_close == bt_ohlcv.last_close
         trade == IF bt_sim = "enhanced"
                    THEN _create_trade(bt_position, last_close, bt_n, "END_OF_TEST")
                  ELSE Backtester_close_position(bt_position, last_close, bt_n, "END_OF_TEST",
                                       bt_cfg)
         trades == CloseRemaining(bt_trades, bt_position, trade)
     IN  /\ bt_trades' = trades
         /\ bt_result' = _calculate_metrics(trades, bt_equity_curve, bt_ohlcv)
  /\ bt_position' = NoBtPosition
  /\ UNCHANGED << bt_sim, bt_n, bt_i, bt_peak_price, bt_capital, bt_entries,
                  bt_equity_curve, bt_step, bt_cfg, bt_ohlcv >>
  /\ UNCHANGED << bot_vars, tune_vars, tech_vars, buy_vars, par_vars, eng_vars,
                  set_vars, ana_vars, size_vars, fn_vars,
                  run_vars >>

InitBacktest ==
  /\ BotAtStart
  /\ db_is_active = TRUE
  /\ db_tuning = Tuning(100, 100)
  /\ TuneAtStart /\ TechAtStart /\ BuyAtStart /\ ParAtStart
  /\ EngAtStart /\ SetAtStart /\ AnaAtStart /\ SizeAtStart /\ FnAtStart
  /\ RunAtStart
  /\ bt_sim \in {"simple", "enhanced"}
  /\ bt_n \in (IF bt_sim = "simple" THEN 0 ELSE 1)..MaxSnapshots
  /\ bt_cfg \in IF bt_sim = "simple" THEN {Backtester_config} ELSE EnhancedConfigs
  /\ \E close \in WarmUpCloses :
       bt_ohlcv = [first_close |-> close, start_close |-> 0, last_close |-> close]
  /\ bt_i = 0
  /\ bt_position = NoBtPosition
  /\ bt_peak_price = 0
  /\ bt_capital = bt_cfg.initial_capital
  /\ bt_trades = << >>
  /\ bt_entries = << >>
  /\ bt_equity_curve = << >>
  /\ bt_step = NoBtStep
  /\ bt_result = NoResult

NextBacktest == SimulateEnhancedStep \/ SimulateStep \/ BacktestReturn

SpecBacktest == InitBacktest /\ [][NextBacktest]_vars

(***************************************************************************)
(* Functions of the bot called on their own.  fn_in names the function and *)
(* holds its arguments, fn_out what it returned.                           *)
(***************************************************************************)
\* profit_percent in thousandths of a percent, around the ends of the tiers; the
\* multipliers get_trail_multipliers() can return, in hundredths: what the tuner
\* writes (0.8 to 2.0) and what a bot_tuning row edited by hand can hold
TrailCalls ==
  { [ given |-> TRUE, fn |-> "calculate_tiered_trailing_stop_percent",
      profit_percent |-> profit_percent, is_bullrun |-> is_bullrun,
      multipliers |-> [normal |-> normal, bullrun |-> bullrun] ] :
      profit_percent \in {-2000, 0, 2999, 3000, 4999, 5000, 9999, 10000, 19999,
                          20000, 60000},
      is_bullrun \in BOOLEAN, normal \in {50, 80, 100, 130, 200, 600},
      bullrun \in {50, 100, 195, 300} }

TrailCall ==
  /\ fn_in.given /\ fn_in.fn = "calculate_tiered_trailing_stop_percent"
  /\ ~fn_out.given
  /\ fn_out' = [ given |-> TRUE,
                 value |-> calculate_tiered_trailing_stop_percent(
                             fn_in.profit_percent, fn_in.is_bullrun,
                             fn_in.multipliers) ]
  /\ UNCHANGED << fn_in, clock_now, cache_loaded_at, store_log >>
  /\ UNCHANGED << bot_vars, tune_vars, tech_vars, buy_vars, par_vars,
                  eng_vars, set_vars, ana_vars, size_vars, bt_vars, run_vars >>

\* price and indicators of a candle on every side of the tests of the two
\* regime detectors (bb_width in percent; adx NONE: not computed yet)
RegimeBundles ==
  { [ price |-> 1000, ema_50 |-> ema_50, ema_200 |-> ema_200, adx |-> adx,
      adx_pos |-> 20, adx_neg |-> adx_neg, bb_width |-> bb_width ] :
      ema_50 \in {990, 1000, 1010}, ema_200 \in {990, 1010},
      adx \in {NONE, 0, 15, 22, 25, 30, 80}, adx_neg \in {10, 20, 30},
      bb_width \in {2, 5, 9} }

RegimeCalls ==
  { [given |-> TRUE, fn |-> fn, row |-> row] :
      fn \in {"detect_market_regime", "_detect_regime"}, row \in RegimeBundles }

DetectMarketRegimeCall ==
  /\ fn_in.given /\ fn_in.fn = "detect_market_regime"
  /\ ~fn_out.given
  /\ fn_out' = [ given |-> TRUE,
                 value |-> detect_market_regime(fn_in.row.price, fn_in.row) ]
  /\ UNCHANGED << fn_in, clock_now, cache_loaded_at, store_log >>
  /\ UNCHANGED << bot_vars, tune_vars, tech_vars, buy_vars, par_vars,
                  eng_vars, set_vars, ana_vars, size_vars, bt_vars, run_vars >>

DetectRegimeCall ==
  /\ fn_in.given /\ fn_in.fn = "_detect_regime"
  /\ ~fn_out.given
  /\ fn_out' = [given |-> TRUE, value |-> _detect_regime(fn_in.row)]
  /\ UNCHANGED << fn_in, clock_now, cache_loaded_at, store_log >>
  /\ UNCHANGED << bot_vars, tune_vars, tech_vars, buy_vars, par_vars,
                  eng_vars, set_vars, ana_vars, size_vars, bt_vars, run_vars >>

InitCalls ==
  /\ BotAtStart
  /\ db_is_active = TRUE
  /\ db_tuning = Tuning(100, 100)
  /\ TuneAtStart /\ TechAtStart /\ BuyAtStart /\ ParAtStart
  /\ EngAtStart /\ SetAtStart /\ AnaAtStart /\ SizeAtStart /\ BtAtStart
  /\ RunAtStart
  /\ fn_in \in TrailCalls \cup RegimeCalls
  /\ fn_out = NoResult
  /\ clock_now = 0 /\ cache_loaded_at = 0 /\ store_log = << >>

NextCalls == TrailCall \/ DetectMarketRegimeCall \/ DetectRegimeCall

SpecCalls == InitCalls /\ [][NextCalls]_vars

(***************************************************************************)
(* get_trail_multipliers called again and again while time passes and the  *)
(* tuner writes bot_tuning (SpecCache).  Time is counted in half hours.    *)
(***************************************************************************)
MULTIPLIER_CACHE_HOURS == 1
MaxHalfHours == 5
MaxWrites == 2

\* the multipliers of a bot_tuning row, as _trail_multiplier_cache holds them
MultipliersOf(row) ==
  [normal |-> row.trail_multiplier, bullrun |-> row.bullrun_trail_multiplier]

\* the rows auto_tune_trailing_stops leaves in bot_tuning
CacheTunings == { Tuning(100, 100), Tuning(130, 100), Tuning(80, 120) }

\* datetime.utcnow() moves on by half an hour
ClockTick ==
  /\ clock_now < MaxHalfHours
  /\ clock_now' = clock_now + 1
  /\ UNCHANGED << fn_in, fn_out, cache_loaded_at, store_log >>
  /\ UNCHANGED << bot_vars, tune_vars, tech_vars, buy_vars, par_vars,
                  eng_vars, set_vars, ana_vars, size_vars, bt_vars, run_vars >>

\* auto_tune_trailing_stops writes other multipliers to bot_tuning
\* (analysis.py 2041-2049)
TunerWrites ==
  /\ Len(store_log) <= MaxWrites
  /\ \E row \in CacheTunings \ {db_tuning} :
       /\ db_tuning' = row
       /\ store_log' = Append(store_log,
                              [at |-> clock_now, value |-> MultipliersOf(row)])
  /\ UNCHANGED << db_is_active, db_positions, settings, balance, positions,
                  trail_multiplier_cache, trail_multiplier_cache_time, csl_pc,
                  csl_symbols, pa_pc, pa_n, pa_sell, last_trade, last_eval,
                  last_exit, last_notify, path >>
  /\ UNCHANGED << fn_in, fn_out, clock_now, cache_loaded_at >>
  /\ UNCHANGED << tune_vars, tech_vars, buy_vars, par_vars,
                  eng_vars, set_vars, ana_vars, size_vars, bt_vars, run_vars >>

\* get_trail_multipliers(), lines 472-500; read_ok: the select returned a row
GetTrailMultipliers ==
  /\ \E read_ok \in BOOLEAN :
       LET cache_age == clock_now - cache_loaded_at
           expired == ~(cache_age < 2 * MULTIPLIER_CACHE_HOURS)
           got == get_trail_multipliers(expired, read_ok)
       IN  /\ trail_multiplier_cache' = got[1]
           /\ trail_multiplier_cache_time' = got[2]
           /\ cache_loaded_at' = IF got[3] /\ read_ok THEN clock_now
                                 ELSE cache_loaded_at
           /\ fn_out' = [ given |-> TRUE, returned |-> got[1], queried |-> got[3],
                          loaded |-> got[3] /\ read_ok, at |-> clock_now,
                          cache_before |-> trail_multiplier_cache,
                          loaded_before |-> trail_multiplier_cache_time,
                          age_before |-> cache_age,
                          store |-> MultipliersOf(db_tuning) ]
  /\ UNCHANGED << db_is_active, db_positions, db_tuning, settings, balance,
                  positions, csl_pc, csl_symbols, pa_pc, pa_n, pa_sell,
                  last_trade, last_eval, last_exit, last_notify, path >>
  /\ UNCHANGED << fn_in, clock_now, store_log >>
  /\ UNCHANGED << tune_vars, tech_vars, buy_vars, par_vars,
                  eng_vars, set_vars, ana_vars, size_vars, bt_vars, run_vars >>

InitCache ==
  /\ BotAtStart
  /\ db_is_active = TRUE
  /\ db_tuning \in CacheTunings
  /\ TuneAtStart /\ TechAtStart /\ BuyAtStart /\ ParAtStart
  /\ EngAtStart /\ SetAtStart /\ AnaAtStart /\ SizeAtStart /\ BtAtStart
  /\ RunAtStart
  /\ fn_in = NoCall
  /\ fn_out = NoResult
  /\ clock_now = 0
  /\ cache_loaded_at = 0
  /\ store_log = << [at |-> 0, value |-> MultipliersOf(db_tuning)] >>

NextCache == ClockTick \/ TunerWrites \/ GetTrailMultipliers

SpecCache == InitCache /\ [][NextCache]_vars

(***************************************************************************)
(* process_analysis_results over lists of up to MaxSignals results for two *)
(* coins, on a bot whose store holds no position or one position fewer     *)
(* than max_positions (SpecRun).                                           *)
(***************************************************************************)
MaxSignals == 4

\* coins of the open positions the store holds at the start
HeldCoins ==
  { "SOL", "XRP", "ADA", "DOGE", "AVAX", "LINK", "MATIC", "DOT", "UNI", "ATOM",
    "LTC", "APT", "STX", "TRX" }

RunResults ==
  { [coin |-> c, price |-> 1000] @@ f : c \in Coins, f \in Profiles }

\* the iteration for one of at most MaxSignals results; position_value is what
\* _calculate_position_size made of the BUY handed to execute_trade
RunResult(r, ok) ==
  /\ pa_n < MaxSignals
  /\ PaStep(r, ok)
  /\ LET before == IF pa_n = 0 THEN << >> ELSE pa_buys
         position_value == _calculate_position_size(settings, balance, BuyArgs(r))
     IN  pa_buys' = IF last_trade'.side = "BUY" THEN Append(before, position_value)
                    ELSE before

InitRun ==
  /\ BotLoaded
  /\ db_positions \in { << >>, [c \in HeldCoins |-> Position(1000, 1000, 0, FALSE)] }
  /\ db_is_active = TRUE
  /\ db_tuning = Tuning(100, 100)
  /\ TuneAtStart /\ TechAtStart /\ BuyAtStart /\ ParAtStart /\ RestAtStart

NextRun ==
  \/ \E b \in BalanceValues : PaStart("none", b)
  \/ \E r \in RunResults, ok \in BOOLEAN : RunResult(r, ok)
  \/ \E record_ok \in BOOLEAN : PaSellNotified(record_ok, NoSink)
  \/ PaBuyNotified(NoSink)
  \/ \E b \in BalanceValues : PaFinish("none", b)

SpecRun == InitRun /\ [][NextRun]_vars

(***************************************************************************)
(* Properties of the bot (SpecBot).                                        *)
(***************************************************************************)

\* C1: the trailing stop of a position the bot holds, once set, is never lower
\* after a step than it was before it, over check_stop_losses cycles that reload
\* the positions through initialize and whose store write may fail.
C1_TrailingStopNeverLowered ==
  [][\A c \in DOMAIN positions \cap DOMAIN positions' :
       positions[c].trailing_stop # 0
         => positions'[c].trailing_stop >= positions[c].trailing_stop]_bot_vars

\* C1, the state the violation starts from: check_stop_losses has raised the
\* trailing stop in memory and its store write has failed
C1_RaisedStopNotStored ==
  \E c \in DOMAIN positions \cap DOMAIN db_positions :
    /\ last_eval.by = "csl" /\ last_eval.coin = c
    /\ db_positions[c].trailing_stop # 0
    /\ positions[c].trailing_stop > db_positions[c].trailing_stop

\* C2: while a check_stop_losses cycle and a process_analysis_results cycle
\* overlap or follow each other, every SELL that succeeds is for a position that
\* is open in the store and every BUY that succeeds is for a symbol that has none.
C2_NoDoubleSellNoDoubleBuy ==
  last_trade.success =>
    /\ last_trade.side = "SELL" => last_trade.store_open
    /\ last_trade.side = "BUY" => ~last_trade.store_open

\* C2, a trade made by process_analysis_results while a check_stop_losses cycle
\* waits for its prices
C2_TradeDuringStopCheck ==
  /\ csl_pc = "fetch"
  /\ pa_pc \in {"notify_sell", "notify_buy"}
  /\ last_trade.success

\* C3: process_analysis_results never hands a BUY to execute_trade for a symbol
\* that has an open position, in the store or in the bot.
C3_NoBuyForOpenSymbol ==
  last_trade.side = "BUY" => ~last_trade.store_open /\ ~last_trade.held

\* C3, the second BUY of one run for the coin the run has already bought
C3_SecondBuyInOneRun ==
  /\ pa_n = 2
  /\ last_trade.side = "BUY"
  /\ last_trade.store_open

\* the first exit that applies to the evaluation e, in the order TRAILING_STOP,
\* STOP_LOSS, TAKE_PROFIT, SIGNAL_REVERSAL; "" when none applies
FirstApplicableExit(e) ==
  IF /\ e.trailing_stop # 0
     /\ e.price * 100000 <= e.trailing_stop
     /\ e.price > e.entry_price
    THEN "TRAILING_STOP"
  ELSE IF (e.price - e.entry_price) * 1000 <= stop_loss_percent * e.entry_price
    THEN "STOP_LOSS"
  ELSE IF (e.price - e.entry_price) * 1000 >= take_profit_percent * e.entry_price
    THEN "TAKE_PROFIT"
  ELSE IF e.signal \in {"SELL", "STRONG_SELL"} /\ e.score <= 100 - min_signal_score
    THEN "SIGNAL_REVERSAL"
  ELSE ""

\* C5: an exit fired by an evaluation of a position, by check_stop_losses or by
\* process_analysis_results, has the first reason that applies in the order
\* TRAILING_STOP, STOP_LOSS, TAKE_PROFIT, SIGNAL_REVERSAL.
C5_FiredExitIsFirstApplicable ==
  last_eval.fired # "" => last_eval.fired = FirstApplicableExit(last_eval)

\* C5, an evaluation by process_analysis_results of a price at or below the
\* trailing stop of a position in profit
C5_TrailingStopDueInSignalRun ==
  /\ last_eval.by = "pa"
  /\ FirstApplicableExit(last_eval) = "TRAILING_STOP"

\* the step just taken is the evaluation by check_stop_losses of the third
\* update (103) of a non-bullrun position of coin c that was entered at 100 and
\* updated with 100 and 101 before, the multiplier in use being 1.0
ThirdUpdateEvaluated(c) ==
  /\ last_eval.by = "csl" /\ last_eval.coin = c /\ path[c] = 3
  /\ last_eval.multiplier = 100 /\ ~last_eval.is_bullrun

\* C10: for a non-bullrun position entered at 100 (stop loss -2.5, take profit
\* 3.0, multiplier 1.0), when check_stop_losses has evaluated the updates 100,
\* 101 and 103, the position it holds has highest_price 103, the width used is
\* 0.8% and the trailing stop is 103 x 0.992 = 102.176.
C10_ScenarioThirdUpdate ==
  \A c \in Coins :
    ThirdUpdateEvaluated(c) =>
      /\ c \in DOMAIN positions
      /\ positions[c].entry_price = ScenarioEntry
      /\ positions[c].highest_price = 1030
      /\ last_eval.trail_percent = 800
      /\ positions[c].trailing_stop = 102176000

\* C10, the evaluation of the third update of the scenario
C10_ThirdUpdateReached ==
  \E c \in Coins :
    /\ ThirdUpdateEvaluated(c)
    /\ last_eval.price = 1030 /\ last_eval.entry_price = ScenarioEntry
    /\ settings.stop_loss_percent = -25 /\ settings.take_profit_percent = 30

\* C10 as stated: width 1.2% and trailing stop 103 x 0.988 = 101.764
C10_ScenarioAsStated ==
  \A c \in Coins :
    ThirdUpdateEvaluated(c) =>
      /\ c \in DOMAIN positions
      /\ positions[c].highest_price = 1030
      /\ last_eval.trail_percent = 1200
      /\ positions[c].trailing_stop = 101764000

\* the step evaluates, by check_stop_losses, the update number n of the price
\* path of the design (100, 101, 103, 102.3, 101.5) for a non-bullrun position
\* of coin c entered at 100, the updates before it evaluated in order, the
\* stored multiplier being 1.0
ScenarioUpdateStep(c, n) ==
  /\ path[c] = n - 1
  /\ last_eval'.by = "csl" /\ last_eval'.coin = c
  /\ last_eval'.price = ScenarioPath[n]
  /\ last_eval'.entry_price = ScenarioEntry /\ ~last_eval'.is_bullrun
  /\ db_tuning = Tuning(100, 100)

\* C11: a non-bullrun position entered at 100 (stop loss -2.5, take profit 3.0)
\* and fed the updates 100, 101, 103, 102.3, 101.5 through check_stop_losses is
\* still open after each of the first four updates, and the fifth update (101.5)
\* closes it with the reason TRAILING_STOP.
C11_ScenarioClosesAtFifthUpdate ==
  [][\A c \in Coins :
       /\ \A n \in 1..4 :
            ScenarioUpdateStep(c, n) =>
              last_eval'.fired = "" /\ c \in DOMAIN positions'
       /\ ScenarioUpdateStep(c, 5) =>
            /\ last_eval'.fired = "TRAILING_STOP"
            /\ last_trade'.side = "SELL" /\ last_trade'.coin = c
            /\ c \notin DOMAIN positions']_vars

\* C11, the fifth update of the path has been evaluated
C11_FifthUpdateEvaluated ==
  \E c \in Coins :
    /\ path[c] = 5
    /\ last_eval.by = "csl" /\ last_eval.coin = c /\ last_eval.price = 1015
    /\ last_eval.entry_price = ScenarioEntry /\ ~last_eval.is_bullrun
    /\ settings.stop_loss_percent = -25 /\ settings.take_profit_percent = 30

\* C14: an error raised while one symbol is evaluated does not keep the other
\* symbols of the cycle from being processed: when a check_stop_losses call
\* has evaluated a position, it leaves no other open position that has a price
\* without an evaluation.
C14_EveryPricedPositionEvaluated ==
  last_eval.by = "csl" => last_eval.not_evaluated = {}

\* C14, a cycle over two open positions that both have a price has ended
C14_TwoPricedPositions ==
  /\ last_eval.by = "csl"
  /\ csl_pc = "idle"
  /\ Cardinality({last_eval.coin} \cup last_eval.not_evaluated) = 2
  /\ last_eval.not_evaluated \subseteq DOMAIN positions

\* C18: a step in which the notification of an opened or closed trade is not
\* delivered (send_notification returns False, or would raise) leaves the
\* positions of the bot and of the store as the trade left them, hands the
\* ExitRecord of a close to record_exit_for_learning, and leaves the run in
\* its loop over the remaining results.
C18_UndeliveredNotificationChangesNothing ==
  [][last_notify' \in {"false", "raises"} /\ pa_pc \in {"notify_sell", "notify_buy"}
       => /\ positions' = positions
          /\ db_positions' = db_positions
          /\ pa_pc' = "loop"
          /\ pa_n' = pa_n
          /\ pa_pc = "notify_sell"
               => /\ pa_sell.coin \notin DOMAIN positions'
                  /\ last_exit'.coin = pa_sell.coin
                  /\ last_exit'.exit_price = pa_sell.exit_price]_vars

\* a SELL whose notification was not delivered, its ExitRecord stored, with
\* results left to process
C18_CloseNotifiedToNobody ==
  /\ last_notify = "false"
  /\ last_exit.coin # "" /\ last_exit.stored
  /\ pa_pc = "loop" /\ pa_n < MaxResults

\* C19: after a successful SELL of process_analysis_results the symbol has no
\* open position, in the bot or in the store, and one ExitRecord for that
\* exit has been appended to the exit log (check_stop_losses reaches no SELL:
\* C5).
C19_ExitAppendsOneRecord ==
  [][pa_pc = "notify_sell" /\ pa_pc' # "notify_sell"
       => /\ pa_sell.coin \notin DOMAIN positions'
          /\ pa_sell.coin \notin DOMAIN db_positions'
          /\ last_exit'.coin = pa_sell.coin
          /\ last_exit'.stored]_vars

\* a successful SELL has been followed by its record_exit_for_learning call
C19_SellRecorded ==
  /\ last_exit.coin # ""
  /\ last_exit.exit_reason = "SIGNAL_REVERSAL"
  /\ last_exit.coin \notin DOMAIN positions

\* C34: the exit_reason of the ExitRecord of an exit is the reason that fired
\* for it: the reason _should_sell returned for a close made by
\* process_analysis_results, the reason check_stop_losses found for its own.
C34_RecordedReasonIsFiredReason ==
  last_exit.coin # "" =>
    last_exit.exit_reason = IF last_eval.by = "csl" THEN last_eval.fired
                            ELSE pa_sell.sell_reason

\* the record of a close that _should_sell decided as STOP_LOSS says
\* SIGNAL_REVERSAL
C34_StopLossRecordedAsReversal ==
  /\ last_exit.coin # "" /\ last_exit.coin = pa_sell.coin /\ last_eval.by = ""
  /\ pa_sell.sell_reason = "STOP_LOSS"
  /\ last_exit.exit_reason = "SIGNAL_REVERSAL"

(***************************************************************************)
(* Properties of one process_analysis_results run (SpecRun).               *)
(***************************************************************************)
RECURSIVE SumSeq(_)
SumSeq(q) == IF q = << >> THEN 0 ELSE Head(q) + SumSeq(Tail(q))

\* C35: the number of open positions never exceeds max_positions: a run of
\* process_analysis_results that starts with at most max_positions open
\* positions leaves at most max_positions positions open.
C35_OpenPositionsWithinLimit ==
  Cardinality(DOMAIN db_positions) <= max_positions

\* a run that started with fourteen open positions has opened two more
C35_SixteenPositionsOpen ==
  /\ pa_pc = "loop"
  /\ HeldCoins \subseteq DOMAIN db_positions
  /\ Cardinality(DOMAIN positions) = max_positions - 1
  /\ Cardinality(DOMAIN db_positions) = max_positions + 1

\* C36: within one run of process_analysis_results the values of the BUY
\* trades handed to execute_trade add up to at most 95 % of the balance the
\* run started with.
C36_BuysWithinReserve ==
  balance # NONE => SumSeq(pa_buys) * 100 <= balance * 95

\* a run on a balance of 10000 has issued four BUY trades of 2730 each
C36_FourBuysAboveBalance ==
  /\ pa_pc \in {"loop", "notify_buy"} /\ balance = 1000000
  /\ Len(pa_buys) = 4
  /\ \A k \in 1..4 : pa_buys[k] = 273000
  /\ SumSeq(pa_buys) > balance

(***************************************************************************)
(* Properties of TradingEngine.process_signal (SpecEngine).                *)
(***************************************************************************)

\* the fields of a position that say what is held
Holding(position) ==
  [ side |-> position.side, entry_price |-> position.entry_price,
    amount |-> position.amount, stop_loss |-> position.stop_loss,
    take_profit |-> position.take_profit ]

\* C15: a process_signal call whose create_order call raises leaves exactly
\* one new order, with status FAILED, in self.orders, returns no order, has
\* called the exchange once, and leaves the open positions as they were: a
\* failed opening order adds no position and a failed closing order removes
\* none.
C15_FailedOrderChangesNoPosition ==
  [][eng_call'.exchange = "raises" =>
       /\ Len(eng_orders') = Len(eng_orders) + 1
       /\ eng_orders'[Len(eng_orders')].status = "FAILED"
       /\ eng_call'.status = "FAILED"
       /\ eng_call'.placed = 1
       /\ eng_call'.returned = "none"
       /\ DOMAIN eng_positions' = DOMAIN eng_positions
       /\ \A s \in DOMAIN eng_positions :
            Holding(eng_positions'[s]) = Holding(eng_positions[s])]_vars

\* a closing order has just failed and its position is still open
C15_FailedCloseKeepsPosition ==
  /\ eng_call.exchange = "raises"
  /\ eng_call.symbol \in DOMAIN eng_positions
  /\ eng_orders[Len(eng_orders)].status = "FAILED"

\* the newest call was made with trading enabled for a symbol with an open BUY
\* position, at a price at or under its stop loss or at or over its take
\* profit, and placed no order: the position is as it was
StopOrTargetNotActedOn ==
  /\ eng_call.symbol # "" /\ eng_config.enabled /\ eng_call.placed = 0
  /\ eng_call.symbol \in DOMAIN eng_positions
  /\ LET position == eng_positions[eng_call.symbol]
     IN  /\ position.side = "buy"
         /\ \/ position.stop_loss # 0 /\ eng_call.price * 1000 <= position.stop_loss
            \/ /\ position.take_profit # 0
               /\ eng_call.price * 1000 >= position.take_profit

C38_RejectedUpdateChangesNothing ==
  [][set_response'.status_code = 400
       => set_row' = set_row /\ set_exchange' = set_exchange]_vars

\* a request with trading_type future and leverage 126 has been refused with
\* 400: the row says spot, the exchange service is set to future and waits to
\* be initialized again
C38_RefusedUpdateSwitchedExchange ==
  /\ set_response.status_code = 400
  /\ set_response.trading_type = "future" /\ set_response.leverage = 126
  /\ set_row.trading_type = "spot"
  /\ set_exchange.trading_type = "future" /\ ~set_exchange.initialized

(***************************************************************************)
(* Properties of analyze_single_coin (SpecAnalyze).                        *)
(***************************************************************************)

AppliedSteps(call) ==
  LET steps == TechSteps(call.price, call.indicators)
  IN  { steps[k] : k \in { j \in 1..Len(steps) : steps[j][2] # "" } }

ReturnedSteps(call, top_reasons) ==
  { st \in AppliedSteps(call) :
      \E k \in 1..Len(top_reasons) : top_reasons[k] = st[2] }

Magnitude(x) == IF x >= 0 THEN x ELSE 0 - x

\* C27: the top_reasons of a rule-based signal are those of the three applied
\* contributions of the largest magnitude: no contribution whose reason is left
\* out is larger in magnitude than one whose reason is returned.
C27_TopReasonsByMagnitude ==
  (ana_out.given /\ ana_out.returned = "result" /\ ana_out.ml # "predicted") =>
    LET returned == ReturnedSteps(ana_in, ana_out.top_reasons)
    IN  /\ Cardinality(returned) = Min(3, Cardinality(AppliedSteps(ana_in)))
        /\ \A out \in AppliedSteps(ana_in) \ returned, in \in returned :
             Magnitude(out[1]) <= Magnitude(in[1])

\* a rule-based signal that returns the reason of the +5 of the DI section and
\* leaves out the reason of the -15 of the MACD section
C27_LargerContributionLeftOut ==
  /\ ana_out.given /\ ana_out.returned = "result" /\ ana_out.ml # "predicted"
  /\ \E k \in 1..Len(ana_out.top_reasons) :
       ana_out.top_reasons[k] = "+DI > -DI (bullish momentum)"
  /\ MacdStep(ana_in.indicators)[2] = "MACD bearish"
  /\ \A k \in 1..Len(ana_out.top_reasons) : ana_out.top_reasons[k] # "MACD bearish"

(***************************************************************************)
(* Properties of _calculate_position_size (SpecSize).                      *)
(***************************************************************************)

\* quantity x price - position_value, in units of 1e-8 coin x tenths
ValueOverSized(quantity, price, position_value) ==
  LET whole == QuantityScale \div price
      rest == QuantityScale % price
  IN (quantity - position_value * whole) * price - position_value * rest

\* the largest quantity with quantity x price <= value
LargestQuantityWorth(value, price) ==
  value * (QuantityScale \div price)
    + (value * (QuantityScale % price)) \div price

OtherFactors(a) ==
  MulK(MulK(MulK(conf_multiplier(a.confidence), adx_multiplier(a.adx)),
            volume_multiplier(a.volume_spike)),
       regime_multiplier(a.regime_confidence))

\* the bullrun factor by the tiers of the score, in thousandths
BullrunTier(bullrun_score, is_bullrun) ==
  CASE ~is_bullrun \/ bullrun_score < 70 -> 1000
    [] is_bullrun /\ 70 <= bullrun_score /\ bullrun_score < 80 -> 1100
    [] is_bullrun /\ 80 <= bullrun_score /\ bullrun_score < 90 -> 1200
    [] is_bullrun /\ bullrun_score >= 90 -> 1300

\* C29: the bullrun factor _calculate_position_size multiplies by is 1.30 for a
\* bullrun_score of 90 or more, 1.20 for 80 to 89, 1.10 for 70 to 79, and 1.00
\* for every score below 70 and whenever is_bullrun is false.
C29_BullrunFactorTiers ==
  size_out.given =>
    size_out.multiplier
      = Min(MulK(OtherFactors(size_in),
                 BullrunTier(size_in.bullrun_score, size_in.is_bullrun)),
            1500)

\* a coin detected as a bullrun with a score of 67: the size is multiplied by
\* 1.10, below the cap of the combined multiplier
C29_BoostBelowSeventy ==
  /\ size_out.given
  /\ size_in.is_bullrun /\ size_in.bullrun_score = 67
  /\ size_out.multiplier = MulK(OtherFactors(size_in), 1100)
  /\ size_out.multiplier < 1500
  /\ size_out.multiplier > OtherFactors(size_in)
  /\ size_out.quantity > 0

(***************************************************************************)
(* Properties of the functions called on their own (SpecCalls).            *)
(***************************************************************************)
\* the base of the tier as the documentation of the tiers gives it, in tenths
TierBase(profit_percent, is_bullrun) ==
  CASE is_bullrun /\ profit_percent < 5000 -> 10
    [] is_bullrun /\ 5000 <= profit_percent /\ profit_percent < 10000 -> 18
    [] is_bullrun /\ 10000 <= profit_percent /\ profit_percent < 20000 -> 25
    [] is_bullrun /\ 20000 <= profit_percent -> 35
    [] ~is_bullrun /\ profit_percent < 3000 -> 5
    [] ~is_bullrun /\ 3000 <= profit_percent /\ profit_percent < 5000 -> 8
    [] ~is_bullrun /\ 5000 <= profit_percent /\ profit_percent < 10000 -> 12
    [] ~is_bullrun /\ 10000 <= profit_percent -> 15

\* C24: calculate_tiered_trailing_stop_percent returns the base of the tier of
\* the profit times the multiplier of the position's class (the bullrun one for
\* a bullrun position, the normal one otherwise), clamped to [0.3, 8.0].
C24_TrailIsClampedTierTimesMultiplier ==
  (fn_out.given /\ fn_in.fn = "calculate_tiered_trailing_stop_percent") =>
    LET multiplier == IF fn_in.is_bullrun THEN fn_in.multipliers.bullrun
                      ELSE fn_in.multipliers.normal
        product == TierBase(fn_in.profit_percent, fn_in.is_bullrun) * multiplier
    IN  /\ fn_out.value = (IF product < 300 THEN 300
                           ELSE IF product > 8000 THEN 8000 ELSE product)
        /\ 300 <= fn_out.value /\ fn_out.value <= 8000

\* a bullrun position at 20% profit with a multiplier of 3.0: 3.5 x 3.0 is held
\* at 8.0
C24_TrailHeldAtUpperBound ==
  /\ fn_out.given /\ fn_in.fn = "calculate_tiered_trailing_stop_percent"
  /\ fn_in.is_bullrun /\ fn_in.profit_percent = 20000
  /\ fn_in.multipliers.bullrun = 300 /\ fn_in.multipliers.normal = 100
  /\ fn_out.value = 8000

\* C28: each of the two regime detectors reports a favorable regime exactly
\* when the label it reports is TRENDING_UP.
C28_FavorableIffTrendingUp ==
  fn_out.given =>
    /\ fn_in.fn = "detect_market_regime" =>
         (fn_out.value.is_favorable_regime
            <=> fn_out.value.market_regime = "TRENDING_UP")
    /\ fn_in.fn = "_detect_regime" =>
         (fn_out.value.is_favorable <=> fn_out.value.regime = "TRENDING_UP")

\* the backtester's detector on a moderate trend (ADX 22) above both averages:
\* TRENDING_UP, favorable, by the last returns of the function
C28_ModerateUptrendFavorable ==
  /\ fn_out.given /\ fn_in.fn = "_detect_regime"
  /\ fn_in.row.adx = 22
  /\ fn_out.value.regime = "TRENDING_UP" /\ fn_out.value.is_favorable
  /\ fn_out.value.conf = 40

(***************************************************************************)
(* Properties of get_trail_multipliers (SpecCache).                        *)
(***************************************************************************)
\* the cache held a load younger than MULTIPLIER_CACHE_HOURS when the newest
\* call was made
FreshBefore ==
  fn_out.loaded_before /\ fn_out.age_before < 2 * MULTIPLIER_CACHE_HOURS

\* bot_tuning held the multipliers m at some moment of the hour before the
\* newest call
HeldWithinTheHour(m) ==
  \E k \in 1..Len(store_log) :
    /\ store_log[k].value = m
    /\ store_log[k].at <= fn_out.at
    /\ \/ k = Len(store_log)
       \/ fn_out.at - store_log[k + 1].at <= 2 * MULTIPLIER_CACHE_HOURS

\* what the call does with the cache and the store
ServesCacheOrReloads ==
  /\ FreshBefore => ~fn_out.queried /\ fn_out.returned = fn_out.cache_before
  /\ ~FreshBefore => fn_out.queried
  /\ fn_out.loaded =>
       /\ fn_out.returned = fn_out.store
       /\ cache_loaded_at >= fn_out.at
  /\ fn_out.queried /\ ~fn_out.loaded => fn_out.returned = fn_out.cache_before

\* C33 as stated: get_trail_multipliers serves the cache without a query while
\* the last successful load is younger than an hour, reloads on the first call
\* once it is an hour old or was never made, returns the cached values after a
\* failed or empty reload, and so never returns multipliers staler than one
\* hour relative to the store.
C33_NeverStalerThanOneHour ==
  fn_out.given => ServesCacheOrReloads /\ HeldWithinTheHour(fn_out.returned)

\* C33: get_trail_multipliers serves the cache without a query while the last
\* successful load is younger than an hour, reloads on the first call once it
\* is an hour old or was never made, and returns the cached values after a
\* failed or empty reload; the multipliers it returns are never staler than
\* one hour relative to the store unless that call's reload failed.
C33_StaleOnlyAfterFailedReload ==
  fn_out.given =>
    /\ ServesCacheOrReloads
    /\ fn_out.loaded \/ ~fn_out.queried => HeldWithinTheHour(fn_out.returned)

\* a call an hour and a half after the load, an hour after the tuner wrote
\* other multipliers, whose reload failed: it returns the multipliers of the
\* load
C33_StaleAfterFailedReload ==
  /\ fn_out.given /\ fn_out.loaded_before /\ fn_out.age_before >= 3
  /\ fn_out.queried /\ ~fn_out.loaded
  /\ fn_out.returned = fn_out.cache_before
  /\ fn_out.returned # fn_out.store
  /\ ~HeldWithinTheHour(fn_out.returned)

\* a call an hour after the load reloads the multipliers the tuner wrote
C33_ReloadedAfterAnHour ==
  /\ fn_out.given /\ fn_out.loaded_before /\ fn_out.age_before = 2
  /\ fn_out.loaded /\ fn_out.returned # fn_out.cache_before

(***************************************************************************)
(* Properties of the backtester (SpecBacktest).                            *)
(***************************************************************************)
\* C21: a run that made no trade gets, from _calculate_metrics, a result with
\* win_rate 0, max_drawdown_pct 0, average and largest win and loss 0, average
\* trade duration 0, and a profit_factor that is not NaN.
C21_EmptyLedgerMetrics ==
  (bt_result.given /\ bt_result.trades = << >>) =>
    /\ bt_result.win_rate = 0
    /\ bt_result.max_drawdown_pct = 0
    /\ bt_result.avg_win_pct = 0 /\ bt_result.avg_loss_pct = 0
    /\ bt_result.largest_win_pct = 0 /\ bt_result.largest_loss_pct = 0
    /\ bt_result.avg_trade_duration_hours = 0
    /\ bt_result.profit_factor.is \in {"number", "inf"}

\* a run over several candles ended with an empty ledger: the risk metrics were
\* computed from the curve
C21_RunWithoutTrades ==
  /\ bt_result.given /\ bt_result.trades = << >>
  /\ Len(bt_result.equity_curve) = MaxSnapshots
  /\ bt_result.total_trades = 0

\* C22: when the simulator has returned, the ledger holds one trade for every
\* position opened during the run, in the order of the entries; a position the
\* loop left open is closed at the close of the last candle (less slippage) with
\* reason END_OF_TEST, which no trade but the last one carries.
C22_EveryEntryClosedOnce ==
  bt_result.given =>
    LET trades == bt_result.trades IN
    /\ [k \in 1..Len(trades) |-> trades[k].entry_time] = bt_entries
    /\ \A k \in 1..Len(trades) :
         trades[k].exit_reason = "END_OF_TEST" =>
           /\ k = Len(trades)
           /\ trades[k].exit_time = bt_n
           /\ trades[k].exit_price
                = Slipped(bt_step.price, 5, trades[k].side = "sell")
    /\ \A k \in 1..Len(trades) : trades[k].exit_time >= trades[k].entry_time

\* a run closed a position in the loop, opened another one and had it closed at
\* the end
C22_ClosedAtEndOfTest ==
  /\ bt_result.given
  /\ Len(bt_result.trades) >= 2
  /\ bt_result.trades[Len(bt_result.trades)].exit_reason = "END_OF_TEST"
  /\ bt_result.trades[1].exit_reason # "END_OF_TEST"

\* C30: a candle that finds a position open does not open one: the entry
\* pipeline runs only on candles that find no position.
C30_ExitAndEntryOnDifferentCandles ==
  bt_step.open_at_start => ~bt_step.entered

\* a candle closed the position it found and opened the next one
C30_ExitAndEntryOnOneCandle ==
  /\ bt_step.open_at_start /\ bt_step.exit # "" /\ bt_step.entered
  /\ bt_position.entry_time = bt_trades[Len(bt_trades)].exit_time

\* the percent, in hundredths, by which value lies above base
ReturnPct(value, base) == ((value - base) * 10000) \div base

\* the sum of pnl over the trades of a ledger
LedgerPnl(trades) ==
  SumOf([t \in {trades[k] : k \in 1..Len(trades)} |-> t.pnl], trades)

\* C31: the candles before index 200 are warm-up and contribute to no
\* statistic of the result: the equity curve has one point for each candle
\* from index 200 on, no trade is entered before that candle, and
\* buy_and_hold_return_pct and alpha are measured from the close of the first
\* candle after the warm-up to the close of the last candle.
C31_WarmUpOutsideStatistics ==
  bt_result.given /\ bt_n > 0 =>
    /\ Len(bt_result.equity_curve) = bt_n
    /\ \A k \in 1..Len(bt_result.trades) : bt_result.trades[k].entry_time >= 1
    /\ bt_result.buy_and_hold_return_pct
         = ReturnPct(bt_ohlcv.last_close, bt_ohlcv.start_close)
    /\ bt_result.alpha
         = bt_result.total_return_pct
           - ReturnPct(bt_ohlcv.last_close, bt_ohlcv.start_close)

\* a result over data whose first close (1900) differs from the close of
\* candle 200 (2000): buy and hold is measured from the first close
C31_BuyAndHoldFromWarmUpCandle ==
  /\ bt_result.given /\ bt_n > 0
  /\ bt_ohlcv.first_close = 1900 /\ bt_ohlcv.start_close = 2000
  /\ bt_ohlcv.last_close = 2000
  /\ bt_result.buy_and_hold_return_pct = ReturnPct(2000, 1900)
  /\ bt_result.buy_and_hold_return_pct # 0

\* the newest trade of the ledger, and what the claimed fill makes of the
\* position it closed at the close of the candle: the exit price moved
\* against the position by slippage_pct of the config of the run, pnl cut by
\* commission_pct of the exit notional
NewestTrade == bt_trades[Len(bt_trades)]
ConfiguredFill(t, close) ==
  BacktestTrade(t, Slipped(close, bt_cfg.slippage_pct, t.side # "buy"),
                t.exit_time, t.exit_reason, bt_cfg.commission_pct)

\* C32: the entry fill and the exit fill of every trade of a backtest are
\* reduced by the configured percentages, whatever they are: a position is
\* entered at the close moved against it by slippage_pct with its value cut by
\* commission_pct, and it is closed at the close moved against it by
\* slippage_pct with pnl cut by commission_pct of the exit notional.
C32_FillsReducedByConfiguredCosts ==
  ~bt_result.given =>
    /\ bt_step.entered =>
         /\ bt_position.entry_price
              = Slipped(bt_step.price, bt_cfg.slippage_pct,
                        bt_position.side = "buy")
         /\ \E row \in BtRows :
              /\ row.price = bt_step.price
              /\ bt_position.position_value
                   = PositionValue(bt_capital, bt_cfg,
                                   IF bt_sim = "enhanced"
                                     THEN _calculate_position_multiplier(row, bt_cfg)
                                   ELSE 1000)
    /\ bt_step.exit # "" => NewestTrade = ConfiguredFill(NewestTrade, bt_step.price)

\* the enhanced simulator, run with slippage_pct 0.1 and commission_pct 0.2,
\* closes a trade at the close less 0.05 percent
C32_ExitFilledAtDefaultCosts ==
  /\ ~bt_result.given /\ bt_sim = "enhanced" /\ bt_step.exit # ""
  /\ bt_cfg.slippage_pct = 10 /\ bt_cfg.commission_pct = 2
  /\ NewestTrade.exit_price = Slipped(bt_step.price, 5, FALSE)
  /\ NewestTrade.exit_price # Slipped(bt_step.price, 10, FALSE)
  /\ NewestTrade.pnl > ConfiguredFill(NewestTrade, bt_step.price).pnl

\* final_equity of _calculate_metrics: the last point of the equity curve
FinalEquity ==
  IF bt_result.equity_curve # << >>
    THEN bt_result.equity_curve[Len(bt_result.equity_curve)]
  ELSE Backtester_config.initial_capital

\* C39: total_return_pct of an enhanced backtest is measured against the
\* initial_capital of the config the simulation was seeded with, so a run that
\* entered no position reports 0.
C39_ReturnAgainstSeededCapital ==
  bt_result.given /\ bt_sim = "enhanced" =>
    /\ bt_result.total_return_pct
         = ((FinalEquity - bt_cfg.initial_capital) * 100)
             \div (bt_cfg.initial_capital \div 100)
    /\ bt_entries = << >> => bt_result.total_return_pct = 0

\* an enhanced run seeded with 5000 that entered no position reports -50 %
C39_FlatRunReportsLoss ==
  /\ bt_result.given /\ bt_sim = "enhanced" /\ bt_entries = << >>
  /\ bt_cfg.initial_capital = 500000 /\ FinalEquity = 500000
  /\ bt_result.total_return_pct = -5000

\* C40: the equity curve and the ledger agree: after a candle that leaves no
\* position open the recorded equity is the initial capital plus the pnl of
\* the trades closed so far, and the final equity total_return_pct is computed
\* from is the initial capital plus the pnl of the whole ledger, a trade closed
\* with END_OF_TEST included.
C40_EquityAgreesWithLedger ==
  /\ ~bt_result.given /\ bt_i > 0 /\ bt_position = NoBtPosition =>
       bt_equity_curve[Len(bt_equity_curve)]
         = bt_cfg.initial_capital + LedgerPnl(bt_trades)
  /\ bt_result.given /\ bt_n > 0 =>
       FinalEquity = bt_cfg.initial_capital + LedgerPnl(bt_result.trades)

\* a run whose last trade was closed with END_OF_TEST: the final equity is a
\* dollar or more away from the initial capital plus the pnl of the ledger
C40_EndOfTestOutsideFinalEquity ==
  /\ bt_result.given /\ bt_result.trades # << >>
  /\ bt_result.trades[Len(bt_result.trades)].exit_reason = "END_OF_TEST"
  /\ FinalEquity - (bt_cfg.initial_capital + LedgerPnl(bt_result.trades)) >= 100

(***************************************************************************)
(* Properties of the tuner (SpecTune).                                     *)
(***************************************************************************)

\* C6: whatever multipliers the row held before a run, every trail_multiplier
\* and bullrun_trail_multiplier a run writes lies in [0.8, 2.0].
C6_WrittenMultipliersInRange ==
  tune_result.adjustment_made =>
    /\ db_tuning.trail_multiplier \in 80..200
    /\ db_tuning.bullrun_trail_multiplier \in 80..200

\* C6, a run that has written new multipliers over a stored value outside
\* [0.8, 2.0]
C6_WrittenOverOutOfRange ==
  /\ tune_result.adjustment_made
  /\ db_tuning.previous_trail_multiplier \notin 80..200
  /\ db_tuning.previous_trail_multiplier # NONE

\* C7: a run that finds fewer completed exit analyses than
\* min_trades_for_learning leaves the bot_tuning row as it was and answers a
\* normal message.
C7_TooFewTradesLeavesRow ==
  [][tune_result'.trades_analyzed \in 0..(min_trades_for_learning - 1)
       /\ tune_now' # tune_now
       => db_tuning' = db_tuning /\ tune_result'.kind = "message"]_vars

\* C7, a run on a row adjusted before that finds some analyses but too few
C7_TooFewTradesRun ==
  /\ tune_result.kind = "message"
  /\ tune_result.trades_analyzed \in 1..(min_trades_for_learning - 1)
  /\ db_tuning.adjustment_reason # ""

\* the factor of the decision table, in hundredths, 100 for "no change": the
\* rate is premature / total, the current multiplier the stored trail_multiplier
TableFactor(total, premature, current) ==
  CASE premature * 100 > 80 * total -> 130
    [] premature * 100 <= 80 * total /\ premature * 100 > 60 * total -> 120
    [] premature * 100 <= 60 * total /\ premature * 100 > 40 * total -> 110
    [] premature * 100 < 20 * total /\ current > 100 -> 95
    [] OTHER -> 100

\* new is current times factor, held inside the bounds of C6 (at most 2.0 when
\* widening, at least 0.8 when tightening) and rounded to two decimals
ScaledBy(new, current, factor) ==
  LET product == current * factor
      held == IF factor > 100 THEN Min(product, 20000) ELSE Max(product, 8000)
  IN  new * 100 - held \in -50..50

GatePasses(k, s, a) ==
  CASE k = 1 -> s.is_active /\ a.signal \in {"STRONG_BUY", "BUY"}
    [] k = 2 -> TRUE
    [] k = 3 -> /\ effective_score(a) >= effective_min_score(s, a)
                /\ a.confidence >= effective_min_confidence(s, a)
    [] k = 4 -> a.volume_24h >= s.min_volume_24h
    [] k = 5 -> a.ema_200 = NONE \/ a.price <= 0 \/ a.price >= a.ema_200
    [] k = 6 -> a.adx = NONE \/ a.adx >= 20
    [] k = 7 -> a.volume_ratio = NONE \/ a.volume_ratio >= 10
    [] k = 8 -> ~(a.higher_tf_trend = "BEARISH" /\ ~a.timeframes_aligned)
    [] k = 9 -> a.is_favorable_regime

\* the first gate that fails, 0 when every gate passes
FirstFailingGate(s, a) ==
  IF \A k \in 1..9 : GatePasses(k, s, a) THEN 0
  ELSE CHOOSE k \in 1..9 :
         /\ ~GatePasses(k, s, a)
         /\ \A j \in 1..(k - 1) : GatePasses(j, s, a)

\* the gate a rejecting return statement of _should_buy belongs to
GateOfReturn(n) ==
  CASE n = 0 -> 0
    [] n \in {1, 2} -> 1
    [] n \in {3, 4} -> 3
    [] n >= 5 -> n - 1

C12_WeakTrendRejected ==
  (buy_out # NONE /\ buy_in.adx # NONE /\ buy_in.adx < 20) => buy_out # 0

\* C12, a call with ADX below 20 that every other gate admits: BUY with score 80
\* and volume ratio 2.0, rejected by the return statement of the ADX test
C12_StrongCallWeakTrend ==
  /\ buy_out = 7
  /\ buy_in.adx = 19 /\ buy_in.signal = "BUY" /\ buy_in.score = 80
  /\ buy_in.volume_ratio = 200
  /\ \A k \in (1..9) \ {6} : GatePasses(k, BotSettings(buy_in.is_active), buy_in)

\* the call is a BUY with raw score 60 that passes every gate other than the
\* score test, under the base min_signal_score 65
BuyAtRawSixty ==
  /\ buy_out # NONE
  /\ buy_in.signal = "BUY" /\ buy_in.score = 60
  /\ buy_in.is_active /\ min_signal_score = 65
  /\ buy_in.confidence >= required_confidence
  /\ \A k \in 4..9 : GatePasses(k, BotSettings(TRUE), buy_in)

\* C13: with base min_signal_score 65 and every other gate passing, a BUY with
\* raw score 60 is admitted when is_bullrun holds with bullrun_score 92
\* (effective score 75 against the effective minimum 55) and is rejected when
\* is_bullrun does not hold.
C13_BullrunBoostAdmits ==
  BuyAtRawSixty =>
    /\ (buy_in.is_bullrun /\ buy_in.bullrun_score = 92) =>
         /\ effective_score(buy_in) = 75
         /\ effective_min_score(BotSettings(TRUE), buy_in) = 55
         /\ buy_out = 0
    /\ ~buy_in.is_bullrun => buy_out # 0

\* C13, the bullrun call of the example, admitted
C13_BoostedCallAdmitted ==
  /\ BuyAtRawSixty
  /\ buy_in.is_bullrun /\ buy_in.bullrun_score = 92
  /\ buy_out = 0

\* the call is admitted by the chain that has every gate but those of K
AdmittedWithout(K, s, a) == \A k \in (1..9) \ K : GatePasses(k, s, a)

\* C23: when ema_200, adx or volume_ratio of a call is None, _should_buy does
\* not leave by the return of that indicator's gate, and it admits the call
\* exactly when the chain without the gates of the missing indicators does.
C23_MissingIndicatorSkipsGate ==
  buy_out # NONE =>
    LET s == BotSettings(buy_in.is_active)
        skipped == { k \in 5..7 : \/ k = 5 /\ buy_in.ema_200 = NONE
                                  \/ k = 6 /\ buy_in.adx = NONE
                                  \/ k = 7 /\ buy_in.volume_ratio = NONE }
    IN  /\ GateOfReturn(buy_out) \notin skipped
        /\ (buy_out = 0) <=> AdmittedWithout(skipped, s, buy_in)

\* a call without EMA200, ADX and volume ratio was admitted
C23_AdmittedWithoutIndicators ==
  /\ buy_out = 0
  /\ buy_in.ema_200 = NONE /\ buy_in.adx = NONE /\ buy_in.volume_ratio = NONE

(***************************************************************************)
(* Properties of calculate_tech_signal (SpecTech).                         *)
(***************************************************************************)

AdxTier(adx) ==
  CASE adx < 20 -> -20
    [] 20 <= adx /\ adx < 25 -> 0
    [] 25 <= adx /\ adx < 40 -> 10
    [] adx >= 40 -> 15

\* C26: the ADX section of calculate_tech_signal adds -20 to the score for an
\* ADX below 20, nothing for 20 <= ADX < 25, +10 for 25 <= ADX < 40 and +15 for
\* an ADX of 40 or more: the returned score is the clamped sum of 50, that
\* contribution and the contributions of the other sections.
C26_AdxContribution ==
  tech_out # NoSignal =>
    tech_out.score
      = ClampScore(50 + AdxTier(tech_in.adx)
                      + SumSteps(Tail(TechSteps(tech_in.price, tech_in))))

\* a call with an ADX of 45 whose score is not held at a bound: the ADX section
\* has added 10 and given the reason of the tier below
C26_VeryStrongTrendScoredAsStrong ==
  /\ tech_out # NoSignal
  /\ tech_in.adx = 45
  /\ tech_out.score \in 1..99
  /\ tech_out.score = 60 + SumSteps(Tail(TechSteps(tech_in.price, tech_in)))
  /\ tech_out.reasons[1] = "Strong trend"

(***************************************************************************)
(* Properties of the two pipelines on one snapshot (SpecParity).           *)
(***************************************************************************)

\* C4: on the same snapshot and with the same thresholds the live pipeline and
\* the backtester make the same entry decision, the same exit decision with the
\* same reason, and use the same size multiplier.
C4_SameDecisions ==
  par_live.given =>
    /\ par_live.buy = par_back.buy
    /\ par_live.exit = par_back.exit
    /\ par_live.multiplier = par_back.multiplier

\* C4, a snapshot that both pipelines admit
C4_BothAdmit ==
  /\ par_live.given /\ par_live.buy
  /\ par_back.given /\ par_back.buy

====
